---- MODULE Spec2Model ----
(***************************************************************************)
(* easypulse: a synchronous control layer over the asynchronous,          *)
(* callback-driven PulseAudio client API.                                  *)
(*                                                                         *)
(* Two bridges exist in the program:                                       *)
(*   "mgr"  the threaded mainloop + context owned by pulseaudio_manager    *)
(*          (easypulse_core.c, manager_initialize / iterate), and          *)
(*   "sq"   the file-scope shared_data_1 mainloop + context of             *)
(*          system_query.c (initialize_pulse / iterate).                   *)
(* Each bridge has one event-loop thread, named like the bridge, which     *)
(* holds the bridge's lock while it dispatches a server reply to the       *)
(* operation's callback.  The application thread is "app".                 *)
(***************************************************************************)
EXTENDS Integers, Sequences, FiniteSets, TLC

\* ---------------------------------------------------------------- bounds
MaxSinks == 2
MaxStreams == 1
Channels == 2

\* ------------------------------------------------------ program constants
PA_VOLUME_NORM == 65536
MAX_WAIT_CYCLES == 100
PA_VOLUME_MUTED == 0

\* int timeout = 50 of get_active_device (v-0.03).
GAD_TIMEOUT == 50

\* ------------------------------------------------------------- universes
Bridges == {"mgr", "sq"}
Threads == {"app", "mgr", "sq"}
NoOp == 0
NoCode == <<"none">>
SinkCode(k) == <<"out", k>>
SourceCode(k) == <<"in", k>>

\* Percentages, device ids and indices the application passes in.
Percents == {-1, 0, 50, 100, 101}
DeviceIds == 0..(MaxSinks + 1)

VARIABLES
    \* --- the audio server
    srvSinks,        \* sequence of [index, code]: the sinks, in listing order
    srvDefaultSink,  \* code of the default sink
    srvStreams,      \* sequence: parent sink index of each sink input
    srvVolume,       \* [position -> per-channel raw volume vector]
    srvCards,        \* number of sound cards the server lists
    srvQ,            \* [bridge -> sequence of op ids sent, not yet answered]
    \* --- the two bridges
    ctxState,        \* [bridge -> pa_context_state_t]
    lock,            \* [bridge -> owner thread or "free"]
    inbox,           \* [bridge -> sequence of events read from the socket]
    cur,             \* [bridge -> event being dispatched, with call number]
    ops,             \* sequence of pa_operation records, op id = position
    \* --- threads
    pc,              \* [thread -> position in the code]
    wt,              \* [thread -> [st, m]]: state of a condition wait on m
    it,              \* [thread -> frame of the running iterate() call]
    \* --- pulseaudio_manager and the frame of the running API call
    mgr,             \* the pulseaudio_manager fields
    connRet,         \* [bridge -> "none" | "ok" | "fail"]: result of connect
    call,            \* the API call in progress
    loc,             \* locals of the API call (and data shared with callbacks)
    ret,             \* return value of the API call, "none" while running
    \* --- observations
    everReady,       \* [bridge -> the context has been READY]
    lateCb,          \* a callback ran after iterate() returned for its op
    crashed,         \* the process was killed (fault or failed assertion)
    \* --- state used by the catalog, mute, input and teardown operations
    srvMute,         \* [position -> the sink's mute flag]
    srvIn,           \* the server's sources, default source, source outputs
    heap,            \* what of the manager's memory and bridge is still live
    bld,             \* shared_data_3 of system_query.c: the listing being built
    conv,            \* arguments and result of a pure function (volume conversion, sample rate)
    pre              \* server state when the running API call was entered

srvVars == <<srvSinks, srvDefaultSink, srvStreams, srvVolume, srvCards, srvQ>>
brVars  == <<ctxState, lock, inbox, cur, ops>>
thVars  == <<pc, wt, it>>
appVars == <<mgr, connRet, call, loc, ret>>
obsVars == <<everReady, lateCb, crashed>>
auxVars == <<srvMute, srvIn, heap, bld, conv, pre>>
vars == <<srvVars, brVars, thVars, appVars, obsVars, auxVars>>

\* ------------------------------------------------------------- helpers
Range(s) == {s[i] : i \in DOMAIN s}

\* Position of the sink with server index n (0 when there is none).
SinkPosByIndex(n) ==
    IF \E k \in DOMAIN srvSinks : srvSinks[k].index = n
    THEN CHOOSE k \in DOMAIN srvSinks : srvSinks[k].index = n
    ELSE 0

\* Position of the sink named c (0 when there is none).
SinkPosByCode(c) ==
    IF \E k \in DOMAIN srvSinks : srvSinks[k].code = c
    THEN CHOOSE k \in DOMAIN srvSinks : srvSinks[k].code = c
    ELSE 0

\* pa_cvolume_set(&cv, channels, v)
CVolumeSet(v) == [c \in 1..Channels |-> v]

\* The server configurations a run starts from: n sinks listed in order, the
\* server indices starting at base (indices need not equal list positions).
SinkSetups ==
    { [k \in 1..n |-> [index |-> base + k - 1, code |-> SinkCode(k - 1)]] :
        n \in 0..MaxSinks, base \in {0, 1} }

NoFrame == [v |-> "none", op |-> NoOp, m |-> "mgr", locked |-> FALSE,
            cycles |-> 0, back |-> "none"]

NoWait == [st |-> "none", m |-> "mgr"]

NoArg == [index |-> 0, code |-> NoCode, cv |-> <<>>, stream |-> 0,
          mute |-> FALSE]

NoEvent == [type |-> "none", st |-> "", op |-> NoOp, items |-> <<>>,
            eol |-> 0, success |-> 0]

NoCur == [ev |-> NoEvent, k |-> 0]

NoLoc == [sink_info |-> [index |-> 0, code |-> NoCode, volume |-> <<>>],
          sink_set |-> FALSE, index |-> 0, new_index |-> 0, timeout |-> FALSE,
          channel_index |-> 0, mute_state |-> FALSE,
          new_volume |-> <<>>, new_set |-> FALSE, polls |-> 0,
          op |-> NoOp, stray |-> FALSE]

NoCall == [fn |-> "none", dev |-> 0, vol |-> 0, v |-> "none"]

\* The pulseaudio_manager before manager_initialize has run.
NoManager == [pa_ready |-> 0, output_count |-> 0, outputs |-> <<>>,
              active_output_device |-> NoCode,
              input_count |-> 0, inputs |-> <<>>,
              active_input_device |-> NoCode,
              volume |-> <<>>, active_device_index |-> 0]

\* A server with one source, which is the default, and no source output.
OneSource == [sources |-> <<SourceCode(0)>>, default |-> SourceCode(0),
              captures |-> <<>>]

\* shared_data_3 before any listing was requested.
NoBuild == [sinks |-> <<>>, count |-> 0, oom |-> FALSE,
            prev |-> [sinks |-> <<>>, oom |-> FALSE]]

NoConv == [v |-> "none", p |-> 0, raw |-> 0, got |-> 0, st |-> "none"]

\* No earlier API call.
NoPrev == [fn |-> "none", dev |-> 0, channel_index |-> 0,
           mute_state |-> FALSE, volume |-> <<>>]

NoPre == [n |-> 0, volume |-> <<>>, mute |-> <<>>, captures |-> <<>>,
          prev |-> NoPrev]

\* The memory manager_create has allocated for manager m of version v, and
\* the bridge it has brought up.  v-0.03 has output devices only, and its
\* active_device_name points into the device array.
HeapOf(m, v) ==
    [v |-> v,
     records |-> {<<"out", k>> : k \in DOMAIN m.outputs}
                 \cup (IF v = "v03" THEN {}
                       ELSE {<<"in", k>> : k \in DOMAIN m.inputs}),
     outputs |-> m.outputs # <<>>,
     inputs |-> (v # "v03" /\ m.inputs # <<>>),
     active |-> v # "v03",
     manager |-> TRUE,
     connected |-> TRUE, context |-> TRUE, mainloop |-> "running"]

\* The fields manager_create fills once both bridges are connected:
\* output_count is the number of cards, outputs[i] comes from the i-th
\* listed sink, active_output_device is the server's default sink name.
Catalog(m) ==
    [m EXCEPT
       !.output_count = srvCards,
       !.outputs = [k \in 1..srvCards |->
                      [index |-> srvSinks[k].index, code |-> srvSinks[k].code]],
       !.volume = [k \in 1..srvCards |-> srvVolume[k]],
       !.active_device_index =
           IF SinkPosByCode(srvDefaultSink) \in 1..srvCards
           THEN SinkPosByCode(srvDefaultSink) - 1 ELSE 0,
       !.active_output_device = srvDefaultSink,
       !.input_count = Len(srvIn.sources),
       !.inputs = [k \in DOMAIN srvIn.sources |->
                     [index |-> k - 1, code |-> srvIn.sources[k]]],
       !.active_input_device = srvIn.default]

\* The audio server a run starts with.
InitServer ==
    /\ srvSinks \in SinkSetups
    /\ srvDefaultSink \in
         (IF srvSinks = <<>> THEN {NoCode}
          ELSE {srvSinks[k].code : k \in DOMAIN srvSinks})
    /\ srvStreams \in
         UNION { [1..n -> {srvSinks[k].index : k \in DOMAIN srvSinks}] :
                   n \in 0..MaxStreams }
    /\ srvVolume = [k \in DOMAIN srvSinks |-> CVolumeSet(PA_VOLUME_NORM \div 2)]
    /\ srvCards \in 0..MaxSinks
    /\ srvQ = [b \in Bridges |-> <<>>]

\* Nothing in flight, no call running.
InitQuiet ==
    /\ lock = [b \in Bridges |-> "free"]
    /\ inbox = [b \in Bridges |-> <<>>]
    /\ cur = [b \in Bridges |-> NoCur]
    /\ ops = <<>>
    /\ wt = [t \in Threads |-> NoWait]
    /\ it = [t \in Threads |-> NoFrame]
    /\ call = NoCall
    /\ loc = NoLoc
    /\ ret = "none"
    /\ lateCb = FALSE
    /\ crashed = FALSE
    /\ srvMute = [k \in DOMAIN srvSinks |-> FALSE]
    /\ bld = NoBuild
    /\ conv = NoConv
    /\ pre = NoPre

\* Before manager_create: nothing is connected.
InitConnect ==
    /\ InitServer
    /\ InitQuiet
    /\ ctxState = [b \in Bridges |-> "UNCONNECTED"]
    /\ pc = [t \in Threads |-> IF t = "app" THEN "mi_connect" ELSE "off"]
    /\ srvIn = OneSource
    /\ mgr = NoManager
    /\ heap = HeapOf(mgr, "v14")
    /\ connRet = [b \in Bridges |-> "none"]
    /\ everReady = [b \in Bridges |-> FALSE]

\* After a successful manager_create: both bridges are READY, their loop
\* threads poll, and the manager holds the catalog of the server it queried
\* (manager_create only succeeds when the listing has an entry for every
\* card and the server names a default sink).
Init ==
    /\ InitServer
    /\ srvCards <= Len(srvSinks)
    /\ srvDefaultSink # NoCode
    /\ InitQuiet
    /\ ctxState = [b \in Bridges |-> "READY"]
    /\ pc = [t \in Threads |-> IF t = "app" THEN "idle" ELSE "poll"]
    /\ srvIn = OneSource
    /\ mgr = Catalog([NoManager EXCEPT !.pa_ready = 1])
    /\ heap = HeapOf(mgr, "v14")
    /\ connRet = [b \in Bridges |-> "ok"]
    /\ everReady = [b \in Bridges |-> TRUE]

\* ===================================================================
\* Condition variable of a threaded mainloop
\* ===================================================================

\* pa_threaded_mainloop_signal(m, 0): wakes every thread waiting on m; a
\* signal sent while nobody waits is lost.
Signal(m, w) ==
    [t \in Threads |->
        IF w[t].st = "waiting" /\ w[t].m = m
        THEN [st |-> "woken", m |-> m] ELSE w[t]]

Waiting(m) == [st |-> "waiting", m |-> m]

\* pa_threaded_mainloop_wait() may return without any signal having been
\* sent (a spurious wakeup of the underlying condition wait).
SpuriousWakeup(t) ==
    /\ ~crashed
    /\ UNCHANGED auxVars
    /\ wt[t].st = "waiting"
    /\ wt' = [wt EXCEPT ![t].st = "woken"]
    /\ UNCHANGED <<srvVars, brVars, pc, it, appVars, obsVars>>

\* ===================================================================
\* Connection Bridge: connect
\* ===================================================================

\* manager_initialize_cb: the new value of pa_ready for context state st.
manager_initialize_cb(st, ready) ==
    CASE st = "READY" -> 1
      [] st \in {"FAILED", "TERMINATED"} -> 2
      [] OTHER -> ready

\* Both state callbacks signal on READY, FAILED and TERMINATED only.
StateCbSignals(st) == st \in {"READY", "FAILED", "TERMINATED"}

\* A manager_initialize that takes every decided pa_ready for success.
MI_Result_Mut(ready) == IF ready # 0 THEN "ok" ELSE "fail"

\* manager_initialize: the value returned once the wait loop has ended.
MI_Result(ready) == IF ready = 2 THEN "fail" ELSE "ok"

\* initialize_pulse: what the wait loop does on context state st.
IP_Decide(st) ==
    CASE st = "READY" -> "ok"
      [] st \in {"FAILED", "TERMINATED"} -> "fail"
      [] OTHER -> "wait"

\* manager_initialize up to its wait loop: lock, pa_context_connect, start
\* the mainloop thread.  pa_context_connect may fail at once.
MI_Connect ==
    /\ ~crashed
    /\ UNCHANGED auxVars
    /\ pc["app"] = "mi_connect"
    /\ \/ /\ ctxState' = [ctxState EXCEPT !["mgr"] = "FAILED"]
          /\ mgr' = [mgr EXCEPT !.pa_ready = manager_initialize_cb("FAILED", @)]
          /\ connRet' = [connRet EXCEPT !["mgr"] = "fail"]
          /\ ret' = "NULL"
          /\ pc' = [pc EXCEPT !["app"] = "done"]
          /\ UNCHANGED lock
       \/ /\ ctxState' = [ctxState EXCEPT !["mgr"] = "CONNECTING"]
          /\ lock' = [lock EXCEPT !["mgr"] = "app"]
          /\ pc' = [pc EXCEPT !["app"] = "mi_check", !["mgr"] = "poll"]
          /\ UNCHANGED <<mgr, connRet, ret>>
    /\ UNCHANGED <<srvVars, inbox, cur, ops, wt, it, call, loc, obsVars>>

\* while (self->pa_ready == 0) pa_threaded_mainloop_wait(...); then unlock
\* and return.
MI_Check ==
    /\ ~crashed
    /\ UNCHANGED auxVars
    /\ pc["app"] = "mi_check"
    /\ IF mgr.pa_ready = 0
       THEN /\ lock' = [lock EXCEPT !["mgr"] = "free"]
            /\ wt' = [wt EXCEPT !["app"] = Waiting("mgr")]
            /\ pc' = [pc EXCEPT !["app"] = "mi_wait"]
            /\ UNCHANGED <<connRet, ret>>
       ELSE /\ lock' = [lock EXCEPT !["mgr"] = "free"]
            /\ connRet' = [connRet EXCEPT !["mgr"] = MI_Result(mgr.pa_ready)]
            /\ IF MI_Result(mgr.pa_ready) = "ok"
               THEN pc' = [pc EXCEPT !["app"] = "ip_connect"] /\ UNCHANGED ret
               ELSE pc' = [pc EXCEPT !["app"] = "done"] /\ ret' = "NULL"
            /\ UNCHANGED wt
    /\ UNCHANGED <<srvVars, ctxState, inbox, cur, ops, it, mgr, call, loc, obsVars>>

\* Return of pa_threaded_mainloop_wait in manager_initialize: the lock is
\* taken again before the loop condition is read.
MI_Woke ==
    /\ ~crashed
    /\ UNCHANGED auxVars
    /\ pc["app"] = "mi_wait"
    /\ wt["app"].st = "woken"
    /\ lock["mgr"] = "free"
    /\ lock' = [lock EXCEPT !["mgr"] = "app"]
    /\ wt' = [wt EXCEPT !["app"] = NoWait]
    /\ pc' = [pc EXCEPT !["app"] = "mi_check"]
    /\ UNCHANGED <<srvVars, ctxState, inbox, cur, ops, it, appVars, obsVars>>

\* initialize_pulse up to its wait loop (called lazily by the first
\* system_query function manager_create uses).
IP_Connect ==
    /\ ~crashed
    /\ UNCHANGED auxVars
    /\ pc["app"] = "ip_connect"
    /\ \/ /\ ctxState' = [ctxState EXCEPT !["sq"] = "FAILED"]
          /\ connRet' = [connRet EXCEPT !["sq"] = "fail"]
          /\ pc' = [pc EXCEPT !["app"] = "mc_noquery"]
          /\ UNCHANGED lock
       \/ /\ ctxState' = [ctxState EXCEPT !["sq"] = "CONNECTING"]
          /\ lock' = [lock EXCEPT !["sq"] = "app"]
          /\ pc' = [pc EXCEPT !["app"] = "ip_check", !["sq"] = "poll"]
          /\ UNCHANGED connRet
    /\ UNCHANGED <<srvVars, inbox, cur, ops, wt, it, mgr, call, loc, ret, obsVars>>

\* The wait loop of initialize_pulse: it reads the context state itself.
IP_Check ==
    /\ ~crashed
    /\ UNCHANGED auxVars
    /\ pc["app"] = "ip_check"
    /\ LET d == IP_Decide(ctxState["sq"]) IN
       IF d = "wait"
       THEN /\ lock' = [lock EXCEPT !["sq"] = "free"]
            /\ wt' = [wt EXCEPT !["app"] = Waiting("sq")]
            /\ pc' = [pc EXCEPT !["app"] = "ip_wait"]
            /\ UNCHANGED connRet
       ELSE /\ lock' = [lock EXCEPT !["sq"] = "free"]
            /\ connRet' = [connRet EXCEPT !["sq"] = d]
            /\ pc' = [pc EXCEPT !["app"] =
                          IF d = "ok" THEN "mc_catalog" ELSE "mc_noquery",
                        !["sq"] = IF d = "ok" THEN @ ELSE "off"]
            /\ UNCHANGED wt
    /\ UNCHANGED <<srvVars, ctxState, inbox, cur, ops, it, mgr, call, loc, ret, obsVars>>

IP_Woke ==
    /\ ~crashed
    /\ UNCHANGED auxVars
    /\ pc["app"] = "ip_wait"
    /\ wt["app"].st = "woken"
    /\ lock["sq"] = "free"
    /\ lock' = [lock EXCEPT !["sq"] = "app"]
    /\ wt' = [wt EXCEPT !["app"] = NoWait]
    /\ pc' = [pc EXCEPT !["app"] = "ip_check"]
    /\ UNCHANGED <<srvVars, ctxState, inbox, cur, ops, it, appVars, obsVars>>

\* The server (or the transport) moves a connecting context to READY or to
\* a terminal state; a READY context can still fail while connect() has not
\* returned.  The client sees the change when its loop thread dispatches it.
SrvConnect(b) ==
    /\ ~crashed
    /\ UNCHANGED auxVars
    /\ inbox[b] = <<>>
    /\ connRet[b] = "none"
    /\ pc[b] = "poll"
    /\ \E st \in {"READY", "FAILED", "TERMINATED"} :
         /\ \/ ctxState[b] = "CONNECTING"
            \/ ctxState[b] = "READY" /\ st # "READY"
         /\ inbox' = [inbox EXCEPT ![b] = <<[NoEvent EXCEPT !.type = "state", !.st = st]>>]
    /\ UNCHANGED <<srvVars, ctxState, lock, cur, ops, thVars, appVars, obsVars>>

\* The loop thread of b dispatches a context state change: the state is
\* updated and the bridge's state callback runs, all under the lock.
DispatchState(b) ==
    /\ ~crashed
    /\ UNCHANGED auxVars
    /\ pc[b] = "poll"
    /\ lock[b] = "free"
    /\ inbox[b] # <<>>
    /\ Head(inbox[b]).type = "state"
    /\ LET st == Head(inbox[b]).st IN
       /\ ctxState' = [ctxState EXCEPT ![b] = st]
       /\ everReady' = [everReady EXCEPT ![b] = @ \/ st = "READY"]
       /\ mgr' = IF b = "mgr"
                 THEN [mgr EXCEPT !.pa_ready = manager_initialize_cb(st, @)]
                 ELSE mgr
       /\ wt' = IF StateCbSignals(st) THEN Signal(b, wt) ELSE wt
    /\ inbox' = [inbox EXCEPT ![b] = Tail(@)]
    /\ UNCHANGED <<srvVars, lock, cur, ops, pc, it, connRet, call, loc, ret,
                   lateCb, crashed>>

\* ===================================================================
\* Asynchronous requests: submission, the server, dispatch
\* ===================================================================

\* A new pa_operation: request kind, the context it was issued on (whose
\* loop thread runs the callback), the callback, and the mainloop m that the
\* callback signals and the caller waits on.
NewOp(kind, ctx, cb, m, arg) ==
    [kind |-> kind, ctx |-> ctx, cb |-> cb, m |-> m, arg |-> arg,
     state |-> "RUNNING", ncb |-> 0, nsig |-> 0, ret |-> FALSE,
     answer |-> "none"]

\* pa_sink_info as delivered to a callback.
SinkInfo(k) ==
    [index |-> srvSinks[k].index, code |-> srvSinks[k].code,
     volume |-> srvVolume[k]]

\* The reply the server sends to request o when it accepts (ok) or refuses.
ReplyTo(id, o, ok) ==
    LET ack(good) == [NoEvent EXCEPT !.type = "reply", !.op = id,
                        !.success = IF good THEN 1 ELSE 0]
        list(items, eol) == [NoEvent EXCEPT !.type = "reply", !.op = id,
                        !.items = items, !.eol = eol]
    IN CASE o.kind = "set_sink_volume_by_index" ->
              ack(ok /\ SinkPosByIndex(o.arg.index) # 0)
         [] o.kind = "set_sink_volume_by_name" ->
              ack(ok /\ SinkPosByCode(o.arg.code) # 0)
         [] o.kind = "set_default_sink" ->
              ack(ok /\ SinkPosByCode(o.arg.code) # 0)
         [] o.kind = "get_sink_info_by_index" ->
              IF ok /\ SinkPosByIndex(o.arg.index) # 0
              THEN list(<<SinkInfo(SinkPosByIndex(o.arg.index))>>, 1)
              ELSE list(<<>>, -1)
         [] o.kind = "get_sink_info_by_name" ->
              IF ok /\ SinkPosByCode(o.arg.code) # 0
              THEN list(<<SinkInfo(SinkPosByCode(o.arg.code))>>, 1)
              ELSE list(<<>>, -1)
         [] o.kind = "get_sink_input_info_list" ->
              IF ok
              THEN list([s \in DOMAIN srvStreams |->
                           [index |-> s, sink |-> srvStreams[s]]], 1)
              ELSE list(<<>>, -1)
         [] o.kind = "get_sink_info_list" ->
              IF ok THEN list([k \in DOMAIN srvSinks |-> SinkInfo(k)], 1)
              ELSE list(<<>>, -1)
         [] o.kind = "set_sink_mute_by_index" ->
              ack(ok /\ SinkPosByIndex(o.arg.index) # 0)
         [] o.kind = "set_default_source" ->
              ack(ok /\ o.arg.code \in Range(srvIn.sources))
         [] o.kind = "get_source_info_list" ->
              IF ok
              THEN list([k \in DOMAIN srvIn.sources |->
                           [index |-> k - 1, code |-> srvIn.sources[k]]], 1)
              ELSE list(<<>>, -1)
         [] OTHER -> ack(ok)

\* Whether reply ev reports a failure: success = 0 for a request that is
\* acknowledged, a negative eol for a request that lists records.
IsError(ev) == ev.eol < 0 \/ (ev.eol = 0 /\ ev.success = 0)

\* The server takes the oldest unanswered request of connection b, applies
\* it and sends the reply.  A request without a callback gets no event.
\* Nothing forces the server to answer: a request may stay in srvQ forever.
SrvReply(b, ok) ==
    /\ ~crashed
    /\ srvQ[b] # <<>>
    /\ LET id == Head(srvQ[b])
           o == ops[id]
           ev == ReplyTo(id, o, ok)
       IN /\ srvQ' = [srvQ EXCEPT ![b] = Tail(@)]
          /\ inbox' = IF o.cb = "NULL" THEN inbox
                      ELSE [inbox EXCEPT ![b] = Append(@, ev)]
          /\ srvVolume' =
               IF ev.success = 1 /\ o.kind = "set_sink_volume_by_index"
               THEN [srvVolume EXCEPT ![SinkPosByIndex(o.arg.index)] = o.arg.cv]
               ELSE IF ev.success = 1 /\ o.kind = "set_sink_volume_by_name"
               THEN [srvVolume EXCEPT ![SinkPosByCode(o.arg.code)] = o.arg.cv]
               ELSE srvVolume
          /\ srvDefaultSink' =
               IF ev.success = 1 /\ o.kind = "set_default_sink"
               THEN o.arg.code ELSE srvDefaultSink
          /\ srvStreams' =
               IF /\ ev.success = 1 /\ o.kind = "move_sink_input_by_index"
                  /\ o.arg.stream \in DOMAIN srvStreams
                  /\ SinkPosByIndex(o.arg.index) # 0
               THEN [srvStreams EXCEPT ![o.arg.stream] = o.arg.index]
               ELSE srvStreams
          /\ srvMute' =
               IF ev.success = 1 /\ o.kind = "set_sink_mute_by_index"
               THEN [srvMute EXCEPT ![SinkPosByIndex(o.arg.index)] = o.arg.mute]
               ELSE srvMute
          /\ srvIn' =
               IF ev.success = 1 /\ o.kind = "set_default_source"
               THEN [srvIn EXCEPT !.default = o.arg.code] ELSE srvIn
          /\ ops' = [ops EXCEPT ![id].answer = IF IsError(ev) THEN "error" ELSE "ok"]
    /\ UNCHANGED <<srvSinks, srvCards, ctxState, lock, cur, thVars, appVars,
                   obsVars, heap, bld, conv, pre>>

\* The loop thread of b leaves poll() with a reply to dispatch: it takes the
\* bridge's lock and keeps it until the operation is done.
DispatchBegin(b) ==
    /\ ~crashed
    /\ UNCHANGED auxVars
    /\ pc[b] = "poll"
    /\ lock[b] = "free"
    /\ inbox[b] # <<>>
    /\ Head(inbox[b]).type = "reply"
    /\ lock' = [lock EXCEPT ![b] = b]
    /\ cur' = [cur EXCEPT ![b] = [ev |-> Head(inbox[b]), k |-> 1]]
    /\ inbox' = [inbox EXCEPT ![b] = Tail(@)]
    /\ pc' = [pc EXCEPT ![b] = "cb"]
    /\ UNCHANGED <<srvVars, ctxState, ops, wt, it, appVars, obsVars>>

\* pa_operation_done after the last callback invocation; the loop thread
\* goes back to poll() and releases the lock.
OpDone(b) ==
    /\ ~crashed
    /\ UNCHANGED auxVars
    /\ pc[b] = "opdone"
    /\ ops' = [ops EXCEPT ![cur[b].ev.op].state = "DONE"]
    /\ lock' = [lock EXCEPT ![b] = "free"]
    /\ cur' = [cur EXCEPT ![b] = NoCur]
    /\ pc' = [pc EXCEPT ![b] = "poll"]
    /\ UNCHANGED <<srvVars, ctxState, inbox, wt, it, appVars, obsVars>>

\* --- what every callback invocation has in common
CbOp(b) == cur[b].ev.op
CbIsItem(b) == cur[b].k <= Len(cur[b].ev.items)
CbItem(b) == cur[b].ev.items[cur[b].k]
CbEol(b) == IF CbIsItem(b) THEN 0 ELSE cur[b].ev.eol
CbAt(b, cb) == ~crashed /\ pc[b] = "cb" /\ ops[CbOp(b)].cb = cb

\* One invocation of the callback of the operation being dispatched on b,
\* sending nsig signals to mainloop m.
CbInvoked(b, nsig, m) ==
    /\ ops' = [ops EXCEPT ![CbOp(b)].ncb = @ + 1, ![CbOp(b)].nsig = @ + nsig]
    /\ wt' = IF nsig > 0 THEN Signal(m, wt) ELSE wt
    /\ pc' = [pc EXCEPT ![b] = IF CbIsItem(b) THEN "cb" ELSE "opdone"]
    /\ cur' = [cur EXCEPT ![b].k = @ + 1]
    /\ lateCb' = (lateCb \/ ops[CbOp(b)].ret)

\* ===================================================================
\* Completion callbacks (each runs on the loop thread of the operation's
\* context, under that bridge's lock)
\* ===================================================================

\* manager_set_master_volume_cb: prints, then signals.
manager_set_master_volume_cb(b) ==
    /\ CbAt(b, "manager_set_master_volume_cb")
    /\ UNCHANGED auxVars
    /\ CbInvoked(b, 1, ops[CbOp(b)].m)
    /\ UNCHANGED <<srvVars, ctxState, lock, inbox, it, appVars, everReady, crashed>>

\* manager_switch_default_output_cb: prints on failure, then signals.
manager_switch_default_output_cb(b) ==
    /\ CbAt(b, "manager_switch_default_output_cb")
    /\ UNCHANGED auxVars
    /\ CbInvoked(b, 1, ops[CbOp(b)].m)
    /\ UNCHANGED <<srvVars, ctxState, lock, inbox, it, appVars, everReady, crashed>>

\* get_output_device_by_index_cb: signals at a positive end of list and after
\* copying a record; a negative eol (the sink does not exist) returns
\* without a signal.
GDI_CbSignals(isItem, eol) ==
    IF isItem THEN 1 ELSE IF eol > 0 THEN 1 ELSE 0

get_output_device_by_index_cb(b) ==
    /\ CbAt(b, "get_output_device_by_index_cb")
    /\ UNCHANGED auxVars
    /\ CbInvoked(b, GDI_CbSignals(CbIsItem(b), CbEol(b)), ops[CbOp(b)].m)
    /\ loc' = IF CbIsItem(b)
              THEN [loc EXCEPT !.sink_info = CbItem(b), !.sink_set = TRUE]
              ELSE loc
    /\ UNCHANGED <<srvVars, ctxState, lock, inbox, it, mgr, connRet, call, ret,
                   everReady, crashed>>

\* get_output_device_index_by_code_cb: a negative eol returns without a
\* signal; a record stores its index and signals; the end of list signals.
GIC_CbSignals(isItem, eol) ==
    IF eol < 0 THEN 0 ELSE 1

get_output_device_index_by_code_cb(b) ==
    /\ CbAt(b, "get_output_device_index_by_code_cb")
    /\ UNCHANGED auxVars
    /\ CbInvoked(b, GIC_CbSignals(CbIsItem(b), CbEol(b)), ops[CbOp(b)].m)
    /\ loc' = IF CbIsItem(b) THEN [loc EXCEPT !.index = CbItem(b).index] ELSE loc
    /\ UNCHANGED <<srvVars, ctxState, lock, inbox, it, mgr, connRet, call, ret,
                   everReady, crashed>>

\* manager_switch_default_output_cb_2: for each sink input, request its move
\* to shared_data->new_index (no callback, handle released at once) and
\* signal; signal again at the end of the list, or on error.
manager_switch_default_output_cb_2(b) ==
    /\ CbAt(b, "manager_switch_default_output_cb_2")
    /\ UNCHANGED auxVars
    /\ LET o == CbOp(b)
           mv == NewOp("move_sink_input_by_index", ops[o].ctx, "NULL", ops[o].m,
                       [NoArg EXCEPT !.stream = CbItem(b).index,
                                     !.index = loc.new_index])
       IN IF CbIsItem(b)
          THEN /\ ops' = Append([ops EXCEPT ![o].ncb = @ + 1, ![o].nsig = @ + 1],
                                [mv EXCEPT !.ret = TRUE])
               /\ srvQ' = [srvQ EXCEPT ![ops[o].ctx] = Append(@, Len(ops) + 1)]
               /\ pc' = pc
          ELSE /\ ops' = [ops EXCEPT ![o].ncb = @ + 1, ![o].nsig = @ + 1]
               /\ srvQ' = srvQ
               /\ pc' = [pc EXCEPT ![b] = "opdone"]
    /\ wt' = Signal(ops[CbOp(b)].m, wt)
    /\ cur' = [cur EXCEPT ![b].k = @ + 1]
    /\ lateCb' = (lateCb \/ ops[CbOp(b)].ret)
    /\ UNCHANGED <<srvSinks, srvDefaultSink, srvStreams, srvVolume, srvCards,
                   ctxState, lock, inbox, it, appVars, everReady, crashed>>

\* set_volume_cb1 (v-0.03): operations_pending--, then signals.
set_volume_cb1(b) ==
    /\ CbAt(b, "set_volume_cb1")
    /\ UNCHANGED auxVars
    /\ CbInvoked(b, 1, ops[CbOp(b)].m)
    /\ UNCHANGED <<srvVars, ctxState, lock, inbox, it, appVars, everReady, crashed>>

\* set_volume_cb2 (v-0.03): the end of list and a missing record return
\* without a signal; a record overwrites the cached volume of
\* devices[active_device_index] and signals.
SV2_CbSignals(isItem, eol) == IF isItem THEN 1 ELSE 0

set_volume_cb2(b) ==
    /\ CbAt(b, "set_volume_cb2")
    /\ UNCHANGED auxVars
    /\ CbInvoked(b, SV2_CbSignals(CbIsItem(b), CbEol(b)), ops[CbOp(b)].m)
    /\ mgr' = IF CbIsItem(b) /\ (mgr.active_device_index + 1) \in DOMAIN mgr.volume
              THEN [mgr EXCEPT !.volume[mgr.active_device_index + 1] = CbItem(b).volume]
              ELSE mgr
    /\ UNCHANGED <<srvVars, ctxState, lock, inbox, it, connRet, call, loc, ret,
                   everReady, crashed>>

\* ===================================================================
\* run_and_wait: the three iterate() variants of the repository
\*   "v14"  easypulse_core.c v-0.14 (and v-0.10): one unconditional wait
\*   "v12"  system_query.c v-0.12: waits while the operation is RUNNING
\*   "v03"  easypulse_core.c v-0.03: as v12, at most MAX_WAIT_CYCLES waits
\* ===================================================================

Frame(v, op, m, back) ==
    [v |-> v, op |-> op, m |-> m, locked |-> FALSE, cycles |-> 0, back |-> back]

\* pa_threaded_mainloop_in_thread(m): is t the loop thread of m.
InThread(t, m) == t = m

\* Whether iterate() waits (again), given the variant, the operation's state
\* and the cycles waited so far.
It_MustWait(v, state, cycles) ==
    CASE v = "v14" -> cycles = 0
      [] v = "v12" -> state = "RUNNING"
      [] v = "v03" -> state = "RUNNING" /\ cycles < MAX_WAIT_CYCLES
      [] OTHER -> FALSE

\* Whether iterate() leaves its loop on the cycle cutoff.
It_TimedOut(v, state, cycles) ==
    v = "v03" /\ state = "RUNNING" /\ cycles >= MAX_WAIT_CYCLES

\* An iterate() without the test for a null operation.
It_IsNull_Mut(op) == FALSE

\* if (!op)
It_IsNull(op) == op = NoOp

\* Entry of iterate(): a null operation returns at once (v03 signals first,
\* under the lock); otherwise the lock is taken unless the caller is the
\* loop thread itself (v03 has no such guard and always locks).
It_Enter(t) ==
    /\ ~crashed
    /\ UNCHANGED auxVars
    /\ pc[t] = "it_enter"
    /\ LET f == it[t] IN
       IF It_IsNull(f.op) /\ f.v # "v03"
       THEN /\ pc' = [pc EXCEPT ![t] = f.back]
            /\ it' = [it EXCEPT ![t] = NoFrame]
            /\ UNCHANGED <<lock, wt>>
       ELSE IF f.v # "v03" /\ InThread(t, f.m)
       THEN /\ pc' = [pc EXCEPT ![t] = "it_loop"]
            /\ UNCHANGED <<lock, wt, it>>
       ELSE /\ lock[f.m] = "free"
            /\ IF It_IsNull(f.op)
               THEN /\ wt' = Signal(f.m, wt)
                    /\ pc' = [pc EXCEPT ![t] = f.back]
                    /\ it' = [it EXCEPT ![t] = NoFrame]
                    /\ UNCHANGED lock
               ELSE /\ lock' = [lock EXCEPT ![f.m] = t]
                    /\ it' = [it EXCEPT ![t].locked = TRUE]
                    /\ pc' = [pc EXCEPT ![t] = "it_loop"]
                    /\ UNCHANGED wt
    /\ UNCHANGED <<srvVars, ctxState, inbox, cur, ops, appVars, obsVars>>

\* The wait of iterate(): pa_threaded_mainloop_wait releases the lock and
\* blocks on the condition.  Called on the loop thread it fails the
\* library's assertion, or (assertions compiled out) blocks the loop thread.
It_Loop(t) ==
    /\ ~crashed
    /\ UNCHANGED auxVars
    /\ pc[t] = "it_loop"
    /\ LET f == it[t] IN
       IF It_MustWait(f.v, ops[f.op].state, f.cycles)
       THEN \/ /\ lock' = [lock EXCEPT ![f.m] = "free"]
               /\ wt' = [wt EXCEPT ![t] = Waiting(f.m)]
               /\ pc' = [pc EXCEPT ![t] = "it_wait"]
               /\ UNCHANGED <<loc, crashed>>
            \/ /\ InThread(t, f.m)
               /\ crashed' = TRUE
               /\ UNCHANGED <<lock, wt, pc, loc>>
       ELSE /\ pc' = [pc EXCEPT ![t] = "it_exit"]
            /\ loc' = [loc EXCEPT !.timeout =
                          @ \/ It_TimedOut(f.v, ops[f.op].state, f.cycles)]
            /\ UNCHANGED <<lock, wt, crashed>>
    /\ UNCHANGED <<srvVars, ctxState, inbox, cur, ops, it, mgr, connRet, call,
                   ret, everReady, lateCb>>

\* Return of pa_threaded_mainloop_wait: the lock is held again.
It_Woke(t) ==
    /\ ~crashed
    /\ UNCHANGED auxVars
    /\ pc[t] = "it_wait"
    /\ wt[t].st = "woken"
    /\ lock[it[t].m] = "free"
    /\ lock' = [lock EXCEPT ![it[t].m] = t]
    /\ wt' = [wt EXCEPT ![t] = NoWait]
    /\ it' = [it EXCEPT ![t].cycles =
                  IF it[t].v = "v12" \/ @ >= MAX_WAIT_CYCLES THEN @ ELSE @ + 1]
    /\ pc' = [pc EXCEPT ![t] = "it_loop"]
    /\ UNCHANGED <<srvVars, ctxState, inbox, cur, ops, appVars, obsVars>>

\* End of iterate(): v14 and v12 release the operation handle, v03 signals
\* instead; the lock is released if this call took it.
It_Exit(t) ==
    /\ ~crashed
    /\ UNCHANGED auxVars
    /\ pc[t] = "it_exit"
    /\ LET f == it[t] IN
       /\ ops' = [ops EXCEPT ![f.op].ret = TRUE]
       /\ wt' = IF f.v = "v03" THEN Signal(f.m, wt) ELSE wt
       /\ lock' = IF f.locked THEN [lock EXCEPT ![f.m] = "free"] ELSE lock
       /\ pc' = [pc EXCEPT ![t] = f.back]
       /\ it' = [it EXCEPT ![t] = NoFrame]
    /\ UNCHANGED <<srvVars, ctxState, inbox, cur, appVars, obsVars>>

\* ===================================================================
\* manager_create after both bridges are up: the Device Catalog
\* ===================================================================

\* output_count is the number of cards (get_output_device_count lists
\* cards); outputs[i] is filled from the i-th listed sink, so more cards than
\* sinks dereferences the list's NULL sentinel.  The default sink name is
\* duplicated with strdup, undefined for a NULL name.
MC_Catalog ==
    /\ ~crashed
    /\ UNCHANGED auxVars
    /\ pc["app"] = "mc_catalog"
    /\ IF srvCards > Len(srvSinks)
       THEN crashed' = TRUE /\ UNCHANGED <<mgr, ret, pc>>
       ELSE IF srvDefaultSink = NoCode
       THEN \/ crashed' = TRUE /\ UNCHANGED <<mgr, ret, pc>>
            \/ /\ ret' = "NULL"
               /\ pc' = [pc EXCEPT !["app"] = "done"]
               /\ UNCHANGED <<mgr, crashed>>
       ELSE /\ mgr' = Catalog(mgr)
            /\ pc' = [pc EXCEPT !["app"] = "idle"]
            /\ UNCHANGED <<ret, crashed>>
    /\ UNCHANGED <<srvVars, brVars, wt, it, connRet, call, loc, everReady, lateCb>>

\* The system_query bridge could not connect: get_output_device_count
\* returns UINT32_MAX and the listing returns NULL, which manager_create
\* dereferences unless the huge calloc fails first.
MC_NoQuery ==
    /\ ~crashed
    /\ UNCHANGED auxVars
    /\ pc["app"] = "mc_noquery"
    /\ \/ crashed' = TRUE /\ UNCHANGED <<ret, pc>>
       \/ /\ ret' = "NULL"
          /\ pc' = [pc EXCEPT !["app"] = "done"]
          /\ UNCHANGED crashed
    /\ UNCHANGED <<srvVars, brVars, wt, it, mgr, connRet, call, loc, everReady,
                   lateCb>>

\* ===================================================================
\* Volume / Mute Controller
\* ===================================================================

\* manager_set_master_volume: the range check on the percentage.
SMV_VolumeInRange(p) == ~(p < 0 \/ p > 100)

\* A conversion that scales by the whole number of raw units per percent.
SMV_RawVolume_Mut(p) == p * (PA_VOLUME_NORM \div 100)

\* (pa_volume_t) ((double) volume / 100.0 * PA_VOLUME_NORM)
SMV_RawVolume(p) == (p * PA_VOLUME_NORM) \div 100

\* manager_set_master_volume(manager, d, p) up to the first wait: the range
\* check, then get_output_device_by_index(d), which sends a lookup on the
\* system_query bridge without holding its lock and calls iterate (v12).
CallSetMasterVolume(d, p) ==
    /\ ~crashed
    /\ UNCHANGED auxVars
    /\ pc["app"] = "idle"
    /\ call' = [NoCall EXCEPT !.fn = "manager_set_master_volume", !.dev = d, !.vol = p]
    /\ IF ~SMV_VolumeInRange(p)
       THEN /\ ret' = "-1"
            /\ pc' = [pc EXCEPT !["app"] = "done"]
            /\ UNCHANGED <<ops, srvQ, it>>
       ELSE /\ ops' = Append(ops, NewOp("get_sink_info_by_index", "sq",
                        "get_output_device_by_index_cb", "sq",
                        [NoArg EXCEPT !.index = d]))
            /\ srvQ' = [srvQ EXCEPT !["sq"] = Append(@, Len(ops) + 1)]
            /\ it' = [it EXCEPT !["app"] = Frame("v12", Len(ops) + 1, "sq", "gdi_ret")]
            /\ pc' = [pc EXCEPT !["app"] = "it_enter"]
            /\ UNCHANGED ret
    /\ UNCHANGED <<srvSinks, srvDefaultSink, srvStreams, srvVolume, srvCards,
                   ctxState, lock, inbox, cur, wt, mgr, connRet, loc, obsVars>>

\* get_output_device_by_index after iterate: sink_info->name is read; when no
\* callback stored a record it is uninitialised heap memory.  A NULL name
\* returns NULL and manager_set_master_volume returns -1.  Otherwise the
\* volume write is sent on the manager's context without its lock and
\* iterate (v14) is called.  With a garbage record the channel count is
\* garbage: pa_cvolume_set may fail its assertion, the request may be refused
\* locally (op == NULL, return -1), or it is sent.
SMV_Write ==
    /\ ~crashed
    /\ UNCHANGED auxVars
    /\ pc["app"] = "gdi_ret"
    /\ LET send ==
             /\ ops' = Append(ops, NewOp("set_sink_volume_by_index", "mgr",
                          "manager_set_master_volume_cb", "mgr",
                          [NoArg EXCEPT !.index = call.dev,
                                        !.cv = CVolumeSet(SMV_RawVolume(call.vol))]))
             /\ srvQ' = [srvQ EXCEPT !["mgr"] = Append(@, Len(ops) + 1)]
             /\ it' = [it EXCEPT !["app"] = Frame("v14", Len(ops) + 1, "mgr", "smv_ret")]
             /\ pc' = [pc EXCEPT !["app"] = "it_enter"]
             /\ UNCHANGED <<ret, crashed>>
           fail ==
             /\ ret' = "-1"
             /\ pc' = [pc EXCEPT !["app"] = "done"]
             /\ UNCHANGED <<ops, srvQ, it, crashed>>
       IN IF loc.sink_set
          THEN send
          ELSE \/ fail
               \/ send
               \/ crashed' = TRUE /\ UNCHANGED <<ops, srvQ, it, pc, ret>>
    /\ UNCHANGED <<srvSinks, srvDefaultSink, srvStreams, srvVolume, srvCards,
                   ctxState, lock, inbox, cur, wt, mgr, connRet, call, loc,
                   everReady, lateCb>>

\* manager_set_master_volume: return 0 after iterate.
SMV_Return ==
    /\ ~crashed
    /\ UNCHANGED auxVars
    /\ pc["app"] = "smv_ret"
    /\ ret' = "0"
    /\ pc' = [pc EXCEPT !["app"] = "done"]
    /\ UNCHANGED <<srvVars, brVars, wt, it, mgr, connRet, call, loc, obsVars>>

\* ===================================================================
\* Default-Device Switcher
\* ===================================================================

\* manager_switch_default_output(self, i) up to the first wait.  The
\* initialiser of shared_data reads self->outputs[i].index before i is
\* checked: for i >= output_count this reads past the array (a NULL array
\* when there are no outputs), which faults or yields garbage; only in the
\* second case is the check reached and false returned.
CallSwitchDefaultOutput(i) ==
    /\ ~crashed
    /\ UNCHANGED auxVars
    /\ pc["app"] = "idle"
    /\ call' = [NoCall EXCEPT !.fn = "manager_switch_default_output", !.dev = i]
    /\ IF i >= mgr.output_count
       THEN /\ \/ crashed' = TRUE /\ UNCHANGED <<ret, pc>>
               \/ /\ ret' = "false"
                  /\ pc' = [pc EXCEPT !["app"] = "done"]
                  /\ UNCHANGED crashed
            /\ UNCHANGED <<ops, srvQ, it, loc>>
       ELSE /\ loc' = [loc EXCEPT !.new_index = mgr.outputs[i + 1].index]
            /\ ops' = Append(ops, NewOp("set_default_sink", "mgr",
                        "manager_switch_default_output_cb", "mgr",
                        [NoArg EXCEPT !.code = mgr.outputs[i + 1].code]))
            /\ srvQ' = [srvQ EXCEPT !["mgr"] = Append(@, Len(ops) + 1)]
            /\ it' = [it EXCEPT !["app"] = Frame("v14", Len(ops) + 1, "mgr", "sdo_resolve")]
            /\ pc' = [pc EXCEPT !["app"] = "it_enter"]
            /\ UNCHANGED <<ret, crashed>>
    /\ UNCHANGED <<srvSinks, srvDefaultSink, srvStreams, srvVolume, srvCards,
                   ctxState, lock, inbox, cur, wt, mgr, connRet, everReady, lateCb>>

\* get_output_device_index_by_code(self->context, code): index = 0, the
\* lookup is issued on the manager's context, and system_query's iterate
\* (v12) waits on the system_query mainloop, which the callback signals.
SDO_Resolve ==
    /\ ~crashed
    /\ UNCHANGED auxVars
    /\ pc["app"] = "sdo_resolve"
    /\ loc' = [loc EXCEPT !.index = 0]
    /\ ops' = Append(ops, NewOp("get_sink_info_by_name", "mgr",
                "get_output_device_index_by_code_cb", "sq",
                [NoArg EXCEPT !.code = mgr.outputs[call.dev + 1].code]))
    /\ srvQ' = [srvQ EXCEPT !["mgr"] = Append(@, Len(ops) + 1)]
    /\ it' = [it EXCEPT !["app"] = Frame("v12", Len(ops) + 1, "sq", "sdo_list")]
    /\ pc' = [pc EXCEPT !["app"] = "it_enter"]
    /\ UNCHANGED <<srvSinks, srvDefaultSink, srvStreams, srvVolume, srvCards,
                   ctxState, lock, inbox, cur, wt, mgr, connRet, call, ret, obsVars>>

\* shared_data.new_index = (the index returned); then the sink inputs are
\* listed with manager_switch_default_output_cb_2 and iterate (v14) waits.
SDO_List ==
    /\ ~crashed
    /\ UNCHANGED auxVars
    /\ pc["app"] = "sdo_list"
    /\ loc' = [loc EXCEPT !.new_index = loc.index]
    /\ ops' = Append(ops, NewOp("get_sink_input_info_list", "mgr",
                "manager_switch_default_output_cb_2", "mgr", NoArg))
    /\ srvQ' = [srvQ EXCEPT !["mgr"] = Append(@, Len(ops) + 1)]
    /\ it' = [it EXCEPT !["app"] = Frame("v14", Len(ops) + 1, "mgr", "sdo_ret")]
    /\ pc' = [pc EXCEPT !["app"] = "it_enter"]
    /\ UNCHANGED <<srvSinks, srvDefaultSink, srvStreams, srvVolume, srvCards,
                   ctxState, lock, inbox, cur, wt, mgr, connRet, call, ret, obsVars>>

\* manager_switch_default_output: return true.  No field of the manager is
\* written anywhere in the function.
SDO_Return ==
    /\ ~crashed
    /\ UNCHANGED auxVars
    /\ pc["app"] = "sdo_ret"
    /\ ret' = "true"
    /\ pc' = [pc EXCEPT !["app"] = "done"]
    /\ UNCHANGED <<srvVars, brVars, wt, it, mgr, connRet, call, loc, obsVars>>

\* ===================================================================
\* set_volume of v-0.03 (the variant with the wait-cycle cutoff)
\* ===================================================================

SV_ArgsValid(d, p) == ~(p < 0 \/ p > 100 \/ d >= mgr.output_count)

\* volume = percentage / 100 * PA_VOLUME_NORM, kept below PA_VOLUME_NORM.
SV_RawVolume(p) ==
    LET v == (p * PA_VOLUME_NORM) \div 100
    IN IF v >= PA_VOLUME_NORM THEN PA_VOLUME_NORM - 1 ELSE v

\* set_volume(self, d, p) up to the first wait.
CallSetVolume(d, p) ==
    /\ ~crashed
    /\ UNCHANGED auxVars
    /\ pc["app"] = "idle"
    /\ call' = [NoCall EXCEPT !.fn = "set_volume", !.dev = d, !.vol = p]
    /\ IF ~SV_ArgsValid(d, p) \/ mgr.pa_ready # 1
       THEN /\ ret' = "false"
            /\ pc' = [pc EXCEPT !["app"] = "done"]
            /\ UNCHANGED <<ops, srvQ, it>>
       ELSE /\ ops' = Append(ops, NewOp("set_sink_volume_by_name", "mgr",
                        "set_volume_cb1", "mgr",
                        [NoArg EXCEPT !.code = mgr.outputs[d + 1].code,
                                      !.cv = CVolumeSet(SV_RawVolume(p))]))
            /\ srvQ' = [srvQ EXCEPT !["mgr"] = Append(@, Len(ops) + 1)]
            /\ it' = [it EXCEPT !["app"] = Frame("v03", Len(ops) + 1, "mgr", "sv_second")]
            /\ pc' = [pc EXCEPT !["app"] = "it_enter"]
            /\ UNCHANGED ret
    /\ UNCHANGED <<srvSinks, srvDefaultSink, srvStreams, srvVolume, srvCards,
                   ctxState, lock, inbox, cur, wt, mgr, connRet, loc, obsVars>>

\* The read-back: get_sink_info_by_name with set_volume_cb2, then iterate.
SV_Second ==
    /\ ~crashed
    /\ UNCHANGED auxVars
    /\ pc["app"] = "sv_second"
    /\ ops' = Append(ops, NewOp("get_sink_info_by_name", "mgr",
                "set_volume_cb2", "mgr",
                [NoArg EXCEPT !.code = mgr.outputs[call.dev + 1].code]))
    /\ srvQ' = [srvQ EXCEPT !["mgr"] = Append(@, Len(ops) + 1)]
    /\ it' = [it EXCEPT !["app"] = Frame("v03", Len(ops) + 1, "mgr", "sv_ret")]
    /\ pc' = [pc EXCEPT !["app"] = "it_enter"]
    /\ UNCHANGED <<srvSinks, srvDefaultSink, srvStreams, srvVolume, srvCards,
                   ctxState, lock, inbox, cur, wt, appVars, obsVars>>

\* set_volume: return true, whatever the two iterate calls met.
SV_Return ==
    /\ ~crashed
    /\ UNCHANGED auxVars
    /\ pc["app"] = "sv_ret"
    /\ ret' = "true"
    /\ pc' = [pc EXCEPT !["app"] = "done"]
    /\ UNCHANGED <<srvVars, brVars, wt, it, mgr, connRet, call, loc, obsVars>>

\* ===================================================================
\* Reentrancy: a completion callback that itself runs a blocking call
\* ===================================================================

\* The bridge whose iterate() variant v belongs to.
BridgeOf(v) == IF v = "v12" THEN "sq" ELSE "mgr"

\* The application runs a blocking call on bridge BridgeOf(v) whose
\* completion callback is synthetic_cb.
CallReentrant(v) ==
    /\ ~crashed
    /\ UNCHANGED auxVars
    /\ pc["app"] = "idle"
    /\ call' = [NoCall EXCEPT !.fn = "reentrant", !.v = v]
    /\ ops' = Append(ops, NewOp("set_sink_mute_by_index", BridgeOf(v),
                "synthetic_cb", BridgeOf(v), NoArg))
    /\ srvQ' = [srvQ EXCEPT ![BridgeOf(v)] = Append(@, Len(ops) + 1)]
    /\ it' = [it EXCEPT !["app"] = Frame(v, Len(ops) + 1, BridgeOf(v), "re_ret")]
    /\ pc' = [pc EXCEPT !["app"] = "it_enter"]
    /\ UNCHANGED <<srvSinks, srvDefaultSink, srvStreams, srvVolume, srvCards,
                   ctxState, lock, inbox, cur, wt, mgr, connRet, loc, ret, obsVars>>

\* synthetic_cb, first half: running on the loop thread of b, under the
\* lock, it sends a second request and calls the bridge's iterate() on it.
synthetic_cb(b) ==
    /\ CbAt(b, "synthetic_cb")
    /\ UNCHANGED auxVars
    /\ ops' = Append(ops, NewOp("set_sink_mute_by_index", b,
                "manager_set_master_volume_cb", b, NoArg))
    /\ srvQ' = [srvQ EXCEPT ![b] = Append(@, Len(ops) + 1)]
    /\ it' = [it EXCEPT ![b] = Frame(call.v, Len(ops) + 1, b, "synth_ret")]
    /\ pc' = [pc EXCEPT ![b] = "it_enter"]
    /\ UNCHANGED <<srvSinks, srvDefaultSink, srvStreams, srvVolume, srvCards,
                   ctxState, lock, inbox, cur, wt, appVars, obsVars>>

\* synthetic_cb, second half: iterate() has returned; signal and return.
synthetic_cb_return(b) ==
    /\ ~crashed
    /\ UNCHANGED auxVars
    /\ pc[b] = "synth_ret"
    /\ CbInvoked(b, 1, ops[CbOp(b)].m)
    /\ UNCHANGED <<srvVars, ctxState, lock, inbox, it, appVars, everReady, crashed>>

RE_Return ==
    /\ ~crashed
    /\ UNCHANGED auxVars
    /\ pc["app"] = "re_ret"
    /\ ret' = "0"
    /\ pc' = [pc EXCEPT !["app"] = "done"]
    /\ UNCHANGED <<srvVars, brVars, wt, it, mgr, connRet, call, loc, obsVars>>

\* ===================================================================
\* The system
\* ===================================================================

\* --- the blocking calls of v-0.14 on a constructed manager

\* Steps of the application thread inside a call.
AppStep ==
    \/ It_Enter("app") \/ It_Loop("app") \/ It_Woke("app") \/ It_Exit("app")
    \/ SMV_Write \/ SMV_Return
    \/ SDO_Resolve \/ SDO_List \/ SDO_Return

\* The API call the application makes.
AppCall ==
    \/ \E d \in DeviceIds, p \in Percents : CallSetMasterVolume(d, p)
    \/ \E i \in DeviceIds : CallSwitchDefaultOutput(i)

\* Steps of the loop thread of bridge b.
LoopStep(b) ==
    \/ DispatchBegin(b) \/ OpDone(b)
    \/ manager_set_master_volume_cb(b)
    \/ manager_switch_default_output_cb(b)
    \/ manager_switch_default_output_cb_2(b)
    \/ get_output_device_by_index_cb(b)
    \/ get_output_device_index_by_code_cb(b)

\* Steps of the audio server and of the condition variable.
EnvStep ==
    \/ \E b \in Bridges, ok \in BOOLEAN : SrvReply(b, ok)
    \/ \E t \in Threads : SpuriousWakeup(t)

Next ==
    \/ AppStep
    \/ AppCall
    \/ \E b \in Bridges : LoopStep(b)
    \/ EnvStep

Spec == Init /\ [][Next]_vars

\* Threads that can run do run; the server is not obliged to answer and a
\* wait is not obliged to wake without a signal.
FairSpec ==
    /\ Spec
    /\ WF_vars(AppStep)
    /\ \A b \in Bridges : WF_vars(LoopStep(b))

\* --- manager_create: connecting the two bridges

ConnectAppStep ==
    \/ MI_Connect \/ MI_Check \/ MI_Woke
    \/ IP_Connect \/ IP_Check \/ IP_Woke
    \/ MC_Catalog \/ MC_NoQuery

ConnectNext ==
    \/ ConnectAppStep
    \/ \E b \in Bridges : SrvConnect(b)
    \/ \E b \in Bridges : DispatchState(b)
    \/ \E t \in Threads : SpuriousWakeup(t)

ConnectSpec == InitConnect /\ [][ConnectNext]_vars

\* The application thread and the loop threads run when they can.
FairConnectSpec ==
    /\ ConnectSpec
    /\ WF_vars(ConnectAppStep)
    /\ \A b \in Bridges : WF_vars(DispatchState(b))

\* --- set_volume of v-0.03: the iterate() with the wait-cycle cutoff

\* v-0.03 counts its devices from the sink listing itself, and set_volume
\* touches no stream.
InitCutoff ==
    /\ Init
    /\ srvCards = Len(srvSinks)
    /\ srvStreams = <<>>

CutoffAppStep ==
    \/ It_Enter("app") \/ It_Loop("app") \/ It_Woke("app") \/ It_Exit("app")
    \/ SV_Second \/ SV_Return

CutoffLoopStep(b) ==
    \/ DispatchBegin(b) \/ OpDone(b)
    \/ set_volume_cb1(b) \/ set_volume_cb2(b)

CutoffNext ==
    \/ CutoffAppStep
    \/ \E d \in DeviceIds, p \in Percents : CallSetVolume(d, p)
    \/ \E b \in Bridges : CutoffLoopStep(b)
    \/ EnvStep

CutoffSpec == InitCutoff /\ [][CutoffNext]_vars

\* --- a blocking call whose completion callback makes a blocking call

ReentrantAppStep ==
    \/ It_Enter("app") \/ It_Loop("app") \/ It_Woke("app") \/ It_Exit("app")
    \/ RE_Return

ReentrantLoopStep(b) ==
    \/ DispatchBegin(b) \/ OpDone(b)
    \/ synthetic_cb(b) \/ synthetic_cb_return(b)
    \/ manager_set_master_volume_cb(b)
    \/ It_Enter(b) \/ It_Loop(b) \/ It_Woke(b) \/ It_Exit(b)

ReentrantNext ==
    \/ ReentrantAppStep
    \/ \E v \in {"v14", "v12"} : CallReentrant(v)
    \/ \E b \in Bridges : ReentrantLoopStep(b)
    \/ EnvStep

ReentrantSpec == InitCutoff /\ [][ReentrantNext]_vars

\* ===================================================================
\* Properties
\* ===================================================================

Final == {"READY", "FAILED", "TERMINATED"}

\* The operations that have a completion callback.
WithCallback == {o \in DOMAIN ops : ops[o].cb # "NULL"}

\* C1: within one iterate() call the operation's callback has run to
\* completion (the operation is done) before the call returns, and none of
\* its invocations happens after the return.
C1_CallbackBeforeReturn ==
    /\ \A o \in WithCallback : ops[o].ret => ops[o].state = "DONE"
    /\ ~lateCb

\* C2: over the whole life of a request its callback signals the wait
\* condition exactly once, on success and on every error path.
C2_ExactlyOneSignal ==
    \A o \in WithCallback : ops[o].state = "DONE" => ops[o].nsig = 1

\* C3: every wait of a blocking call is bounded by a cycle cutoff: a call
\* that has started returns (or the process dies), also when the server never
\* answers.
C3_CallReturns ==
    (call.fn # "none") ~> (ret # "none" \/ crashed)

\* C4: when the wait-cycle cutoff is reached the timeout is reported to the
\* caller, and the operation does not go on to report success.
C4_TimeoutIsFailure ==
    (loc.timeout /\ ret # "none") => ret = "false"

\* C5: iterate() entered on the loop thread (from a completion callback)
\* ends within bounded cycles: the loop thread never blocks on the condition
\* that only it signals, and the process is not killed.
C5_LoopThreadNeverWaits ==
    /\ \A b \in Bridges : wt[b].st = "none"
    /\ ~crashed

\* C6: connect() returns only once the context is READY or terminal, returns
\* success only if READY was reached and failure only in a terminal state;
\* and once the context has reached such a state, connect() does return.
C6_ConnectDecides ==
    /\ [](\A b \in Bridges :
            /\ connRet[b] # "none" => ctxState[b] \in Final
            /\ connRet[b] = "ok" => everReady[b]
            /\ connRet[b] = "fail" => ctxState[b] \in {"FAILED", "TERMINATED"})
    /\ \A b \in Bridges : (ctxState[b] \in Final) ~> (connRet[b] # "none")

\* Both bridges were waited for: the manager's connect returned success
\* after READY, system_query's returned failure after TERMINATED.
C6_Witness ==
    /\ connRet["mgr"] = "ok" /\ everReady["mgr"]
    /\ connRet["sq"] = "fail" /\ ctxState["sq"] = "TERMINATED" /\ ~everReady["sq"]

\* A device lookup the server answered with an error (no record, eol < 0)
\* because no sink has the index asked for.
LookupFailed(o) ==
    /\ ops[o].cb = "get_output_device_by_index_cb"
    /\ SinkPosByIndex(ops[o].arg.index) = 0
    /\ ops[o].state = "DONE"
    /\ ops[o].ncb = 1

\* C7: when the server answers a device lookup with an error, the caller is
\* not left blocked in the wait, and the calling operation returns a failure.
C7_NotFoundWakesAndFails ==
    \A o \in DOMAIN ops :
        LookupFailed(o) =>
            /\ ~(it["app"].op = o /\ wt["app"].st = "waiting")
            /\ ret \in {"none", "-1"}

\* A device id that is neither an index into the catalog nor the server
\* index of any catalogued output.
OutOfRangeDevice(d) ==
    /\ d >= mgr.output_count
    /\ \A k \in DOMAIN mgr.outputs : mgr.outputs[k].index # d

\* C8: set_master_volume with a percentage outside [0,100] or an out-of-range
\* device id returns a failure and submits no request at all.
C8_InvalidArgsNoRoundTrip ==
    (/\ call.fn = "manager_set_master_volume"
     /\ (~SMV_VolumeInRange(call.vol) \/ OutOfRangeDevice(call.dev)))
    => (ops = <<>> /\ ret \in {"none", "-1"})

\* C9: switch_default_output(i) with i >= output count returns failure, sends
\* no request, and leaves the server's default and the manager's reported
\* default unchanged.
C9_InvalidIndexFailsFast ==
    (call.fn = "manager_switch_default_output" /\ call.dev >= mgr.output_count)
    => /\ ~crashed
       /\ ret \in {"none", "false"}
       /\ ops = <<>>

\* C10: after switch_default_output(i) has returned success for a valid i,
\* the manager's reported default output code is outputs[i].code.
C10_ReportedDefaultFollows ==
    (call.fn = "manager_switch_default_output" /\ ret = "true")
    => mgr.active_output_device = mgr.outputs[call.dev + 1].code

\* The server index of the sink named c.
ResolvedIndex(c) == srvSinks[SinkPosByCode(c)].index

\* A move of stream s to sink index n has been requested.
MoveRequested(s, n) ==
    \E o \in DOMAIN ops :
        /\ ops[o].kind = "move_sink_input_by_index"
        /\ ops[o].arg.stream = s
        /\ ops[o].arg.index = n

\* C11: when switch_default_output(i) has returned and the server refused
\* none of its requests, a move to the index the server assigns to
\* outputs[i].code has been requested for every active playback stream.
C11_AllStreamsMoved ==
    (/\ call.fn = "manager_switch_default_output" /\ ret = "true"
     /\ \A o \in DOMAIN ops : ops[o].answer # "error")
    => \A s \in DOMAIN srvStreams :
           MoveRequested(s, ResolvedIndex(mgr.outputs[call.dev + 1].code))

\* Every iterate() that has returned did so after its operation was done.
NoEarlyReturn ==
    /\ \A o \in WithCallback : ops[o].ret => ops[o].state = "DONE"
    /\ ~lateCb

\* The callback of operation o has been told by the server that the request
\* failed (success = 0).
ServerReportedFailure(o) ==
    /\ ops[o].cb \in {"manager_set_master_volume_cb",
                      "manager_switch_default_output_cb"}
    /\ ops[o].answer = "error"
    /\ ops[o].ncb = 1

\* C12: when the server reports failure for a volume write or a set-default
\* request, the manager operation returns a failure value, not success.
C12_ServerFailureReturned ==
    (NoEarlyReturn /\ ret # "none" /\ \E o \in DOMAIN ops : ServerReportedFailure(o))
    => ret \in {"-1", "false"}

\* ===================================================================
\* Teardown: manager_cleanup (v-0.14) and destroy (v-0.03)
\* ===================================================================

\* The device records of one direction that are still allocated.
LiveRecords(dir) == {r \in heap.records : r[1] = dir}

\* The record the freeing loop of direction dir reaches next (i ascending).
NextRecord(dir) ==
    CHOOSE r \in LiveRecords(dir) : \A q \in LiveRecords(dir) : r[2] <= q[2]

\* manager_cleanup(manager), entered with a non-null manager.
CallManagerCleanup ==
    /\ ~crashed
    /\ pc["app"] = "idle"
    /\ call.fn = "none" /\ heap.v = "v14"
    /\ heap.manager
    /\ call' = [call EXCEPT !.fn = "manager_cleanup"]
    /\ pc' = [pc EXCEPT !["app"] = "mcl_outputs"]
    /\ UNCHANGED <<srvVars, brVars, wt, it, mgr, connRet, loc, ret, obsVars,
                   auxVars>>

\* One round of the loop over outputs (the record's strings, channel names
\* and profiles), and after the last round the array itself.
MCL_FreeOutputs ==
    /\ ~crashed
    /\ pc["app"] = "mcl_outputs"
    /\ IF heap.outputs /\ LiveRecords("out") # {}
       THEN /\ heap' = [heap EXCEPT !.records = @ \ {NextRecord("out")}]
            /\ pc' = pc
       ELSE /\ heap' = [heap EXCEPT !.outputs = FALSE]
            /\ pc' = [pc EXCEPT !["app"] = "mcl_inputs"]
    /\ UNCHANGED <<srvVars, brVars, wt, it, appVars, obsVars,
                   srvMute, srvIn, bld, conv, pre>>

\* The same for inputs; then the two active-device names are freed.
MCL_FreeInputs ==
    /\ ~crashed
    /\ pc["app"] = "mcl_inputs"
    /\ IF heap.inputs /\ LiveRecords("in") # {}
       THEN /\ heap' = [heap EXCEPT !.records = @ \ {NextRecord("in")}]
            /\ pc' = pc
       ELSE /\ heap' = [heap EXCEPT !.inputs = FALSE, !.active = FALSE]
            /\ pc' = [pc EXCEPT !["app"] = "mcl_context"]
    /\ UNCHANGED <<srvVars, brVars, wt, it, appVars, obsVars,
                   srvMute, srvIn, bld, conv, pre>>

\* pa_context_disconnect if the context is READY, then pa_context_unref.
MCL_Context ==
    /\ ~crashed
    /\ pc["app"] = "mcl_context"
    /\ ctxState' = [ctxState EXCEPT !["mgr"] =
                      IF @ = "READY" THEN "TERMINATED" ELSE @]
    /\ heap' = [heap EXCEPT !.connected = FALSE, !.context = FALSE]
    /\ pc' = [pc EXCEPT !["app"] = "mcl_mainloop"]
    /\ UNCHANGED <<srvVars, lock, inbox, cur, ops, wt, it, appVars, obsVars,
                   srvMute, srvIn, bld, conv, pre>>

\* pa_threaded_mainloop_stop joins the loop thread, pa_threaded_mainloop_free
\* releases the loop; free(manager) ends the function.
MCL_Mainloop ==
    /\ ~crashed
    /\ pc["app"] = "mcl_mainloop"
    /\ pc["mgr"] = "poll"
    /\ heap' = [heap EXCEPT !.mainloop = "freed", !.manager = FALSE]
    /\ pc' = [pc EXCEPT !["app"] = "done", !["mgr"] = "off"]
    /\ ret' = "void"
    /\ UNCHANGED <<srvVars, brVars, wt, it, mgr, connRet, call, loc, obsVars,
                   srvMute, srvIn, bld, conv, pre>>

\* destroy(self) of v-0.03 starts with cleanup(self).
CallDestroy ==
    /\ ~crashed
    /\ pc["app"] = "idle"
    /\ call.fn = "none" /\ heap.v = "v03"
    /\ heap.manager
    /\ call' = [call EXCEPT !.fn = "destroy"]
    /\ pc' = [pc EXCEPT !["app"] = "cl_disconnect"]
    /\ UNCHANGED <<srvVars, brVars, wt, it, mgr, connRet, loc, ret, obsVars,
                   auxVars>>

\* cleanup: lock, pa_context_disconnect, unlock.
CL_Disconnect ==
    /\ ~crashed
    /\ pc["app"] = "cl_disconnect"
    /\ lock["mgr"] = "free"
    /\ ctxState' = [ctxState EXCEPT !["mgr"] = "TERMINATED"]
    /\ heap' = [heap EXCEPT !.connected = FALSE]
    /\ pc' = [pc EXCEPT !["app"] = "cl_stop"]
    /\ UNCHANGED <<srvVars, lock, inbox, cur, ops, wt, it, appVars, obsVars,
                   srvMute, srvIn, bld, conv, pre>>

\* cleanup: pa_threaded_mainloop_stop, then pa_context_unref.
CL_Stop ==
    /\ ~crashed
    /\ pc["app"] = "cl_stop"
    /\ pc["mgr"] = "poll"
    /\ heap' = [heap EXCEPT !.mainloop = "stopped", !.context = FALSE]
    /\ pc' = [pc EXCEPT !["app"] = "cl_free", !["mgr"] = "off"]
    /\ UNCHANGED <<srvVars, brVars, wt, it, appVars, obsVars,
                   srvMute, srvIn, bld, conv, pre>>

\* cleanup: pa_threaded_mainloop_free; cleanup returns to destroy.
CL_Free ==
    /\ ~crashed
    /\ pc["app"] = "cl_free"
    /\ heap' = [heap EXCEPT !.mainloop = "freed"]
    /\ pc' = [pc EXCEPT !["app"] = "d_devices"]
    /\ UNCHANGED <<srvVars, brVars, wt, it, appVars, obsVars,
                   srvMute, srvIn, bld, conv, pre>>

\* destroy: one round of the loop over devices (name and description), and
\* after the last round free(self->devices) and free(self).
D_FreeDevices ==
    /\ ~crashed
    /\ pc["app"] = "d_devices"
    /\ IF LiveRecords("out") # {}
       THEN /\ heap' = [heap EXCEPT !.records = @ \ {NextRecord("out")}]
            /\ UNCHANGED <<pc, ret>>
       ELSE /\ heap' = [heap EXCEPT !.outputs = FALSE, !.manager = FALSE]
            /\ pc' = [pc EXCEPT !["app"] = "done"]
            /\ ret' = "void"
    /\ UNCHANGED <<srvVars, brVars, wt, it, mgr, connRet, call, loc, obsVars,
                   srvMute, srvIn, bld, conv, pre>>

\* A constructed manager of either version, about to be torn down.
InitTeardown ==
    /\ InitServer
    /\ srvCards <= Len(srvSinks)
    /\ srvDefaultSink # NoCode
    /\ InitQuiet
    /\ ctxState = [b \in Bridges |-> "READY"]
    /\ pc = [t \in Threads |-> IF t = "app" THEN "idle" ELSE "poll"]
    /\ srvIn = OneSource
    /\ mgr = Catalog([NoManager EXCEPT !.pa_ready = 1])
    /\ \E v \in {"v14", "v03"} : heap = HeapOf(mgr, v)
    /\ connRet = [b \in Bridges |-> "ok"]
    /\ everReady = [b \in Bridges |-> TRUE]

TeardownNext ==
    \/ CallManagerCleanup
    \/ MCL_FreeOutputs \/ MCL_FreeInputs \/ MCL_Context \/ MCL_Mainloop
    \/ CallDestroy
    \/ CL_Disconnect \/ CL_Stop \/ CL_Free \/ D_FreeDevices

TeardownSpec == InitTeardown /\ [][TeardownNext]_vars

\* Some device record, device array or active-device name is still allocated.
CatalogLive ==
    heap.records # {} \/ heap.outputs \/ heap.inputs \/ heap.active

\* The bridge has been disconnected, stopped or released, wholly or in part.
BridgeTornDown ==
    ~heap.connected \/ ~heap.context \/ heap.mainloop # "running"

\* C13: during teardown no disconnect, loop stop or release of the context or
\* the loop happens while catalog memory is still allocated.
C13_CatalogFreedBeforeBridge == ~(BridgeTornDown /\ CatalogLive)

\* ===================================================================
\* Device Catalog: get_available_output_devices (system_query.c)
\* ===================================================================

\* Slot k (from 1) of shared_data_3.sinks is inside the allocated array.
InArray(k) == k \in DOMAIN bld.sinks

\* get_available_output_devices: the array gets one slot per counted card
\* plus one, the sink list is requested and waited for.  The malloc of the
\* array may fail (alloc = FALSE), which returns NULL.
\* A build that allocates a new array but keeps the count of the build before.
GAOD_Reset_Mut(sinks) ==
    [sinks |-> sinks, count |-> bld.count, oom |-> FALSE,
     prev |-> [sinks |-> bld.sinks, oom |-> bld.oom]]

\* shared_data_3 after the two assignments that open
\* get_available_output_devices: sinks is the new array and count is reset.
\* The array of the call before stays with its caller (prev).
GAOD_Reset(sinks) ==
    [sinks |-> sinks, count |-> 0, oom |-> FALSE,
     prev |-> [sinks |-> bld.sinks, oom |-> bld.oom]]

CallGetAvailableOutputDevices(alloc, limit) ==
    /\ ~crashed
    /\ pc["app"] = "idle"
    /\ pre.n < limit
    /\ pre' = [pre EXCEPT !.n = @ + 1]
    /\ call' = [call EXCEPT !.fn = "get_available_output_devices"]
    /\ IF alloc
       THEN /\ bld' = GAOD_Reset([k \in 1..(srvCards + 1) |-> <<"uninit">>])
            /\ ops' = Append(ops, NewOp("get_sink_info_list", "sq",
                                "get_available_output_devices_cb", "sq", NoArg))
            /\ srvQ' = [srvQ EXCEPT !["sq"] = Append(@, Len(ops) + 1)]
            /\ it' = [it EXCEPT !["app"] =
                        Frame("v12", Len(ops) + 1, "sq", "gaod_return")]
            /\ pc' = [pc EXCEPT !["app"] = "it_enter"]
            /\ ret' = "none"
       ELSE /\ bld' = [GAOD_Reset(<<>>) EXCEPT !.oom = TRUE]
            /\ ret' = "NULL"
            /\ UNCHANGED <<ops, srvQ, it, pc>>
    /\ UNCHANGED <<srvSinks, srvDefaultSink, srvStreams, srvVolume, srvCards,
                   ctxState, lock, inbox, cur, wt, mgr, connRet, loc, obsVars,
                   srvMute, srvIn, heap, conv>>

\* get_available_output_devices_cb: a negative eol signals; the end of the
\* list stores the NULL sentinel at sinks[count] and signals; a record is
\* copied into a new pa_sink_info stored at sinks[count], and count grows.
\* When that malloc fails (alloc = FALSE) the NULL stays in the slot, the
\* callback signals and count does not grow.  A store past the end of the
\* array is undefined: the process is killed or the store is lost.
GAOD_CbSignals(isItem, eol, alloc) ==
    IF isItem THEN (IF alloc THEN 0 ELSE 1) ELSE 1

get_available_output_devices_cb(b, alloc) ==
    /\ CbAt(b, "get_available_output_devices_cb")
    /\ LET slot == bld.count + 1
           stores == CbIsItem(b) \/ CbEol(b) > 0
           value == IF CbIsItem(b) /\ alloc THEN CbItem(b).code ELSE <<"NULL">>
           count == IF CbIsItem(b) /\ alloc THEN bld.count + 1 ELSE bld.count
       IN \/ /\ stores => InArray(slot)
             /\ bld' = [bld EXCEPT !.sinks = IF stores
                                             THEN [@ EXCEPT ![slot] = value]
                                             ELSE @,
                                   !.count = count,
                                   !.oom = @ \/ (CbIsItem(b) /\ ~alloc)]
             /\ CbInvoked(b, GAOD_CbSignals(CbIsItem(b), CbEol(b), alloc),
                          ops[CbOp(b)].m)
             /\ UNCHANGED crashed
          \/ /\ stores /\ ~InArray(slot)
             /\ bld' = [bld EXCEPT !.count = count,
                                   !.oom = @ \/ (CbIsItem(b) /\ ~alloc)]
             /\ CbInvoked(b, GAOD_CbSignals(CbIsItem(b), CbEol(b), alloc),
                          ops[CbOp(b)].m)
             /\ UNCHANGED crashed
          \/ /\ stores /\ ~InArray(slot)
             /\ crashed' = TRUE
             /\ UNCHANGED <<bld, ops, wt, pc, cur, lateCb>>
    /\ UNCHANGED <<srvVars, ctxState, lock, inbox, it, appVars, everReady,
                   srvMute, srvIn, heap, conv, pre>>

\* return shared_data_3.sinks;
GAOD_Return ==
    /\ ~crashed
    /\ pc["app"] = "gaod_return"
    /\ ret' = "sinks"
    /\ pc' = [pc EXCEPT !["app"] = "idle"]
    /\ UNCHANGED <<srvVars, brVars, wt, it, mgr, connRet, call, loc, obsVars,
                   auxVars>>

\* Both bridges are up and manager_create is about to fill the catalog.
InitBuild ==
    /\ InitServer
    /\ InitQuiet
    /\ ctxState = [b \in Bridges |-> "READY"]
    /\ pc = [t \in Threads |-> IF t = "app" THEN "idle" ELSE "poll"]
    /\ srvIn = OneSource
    /\ mgr = [NoManager EXCEPT !.pa_ready = 1]
    /\ heap = HeapOf(mgr, "v14")
    /\ connRet = [b \in Bridges |-> "ok"]
    /\ everReady = [b \in Bridges |-> TRUE]

BuildAppStep ==
    \/ It_Enter("app") \/ It_Loop("app") \/ It_Woke("app") \/ It_Exit("app")
    \/ GAOD_Return

BuildLoopStep(b) ==
    \/ DispatchBegin(b) \/ OpDone(b)
    \/ \E alloc \in BOOLEAN : get_available_output_devices_cb(b, alloc)

BuildNext ==
    \/ BuildAppStep
    \/ \E alloc \in BOOLEAN : CallGetAvailableOutputDevices(alloc, 1)
    \/ \E b \in Bridges : BuildLoopStep(b)
    \/ EnvStep

BuildSpec == InitBuild /\ [][BuildNext]_vars

\* The returned array holds, in listing order, a record of every sink of the
\* server, followed by the NULL sentinel.
FullyPopulated ==
    /\ Len(bld.sinks) > Len(srvSinks)
    /\ \A k \in DOMAIN srvSinks : bld.sinks[k] = srvSinks[k].code
    /\ bld.sinks[Len(srvSinks) + 1] = <<"NULL">>

\* C14: get_available_output_devices returns NULL or an array holding a
\* record for every sink the server enumerated, also when a record
\* allocation fails or the listing ends with an error (the array being
\* allocated large enough for the sinks of the server).
C14_BuildAllOrNothing ==
    (/\ call.fn = "get_available_output_devices" /\ ret # "none"
     /\ srvCards >= Len(srvSinks))
    => (ret = "NULL" \/ FullyPopulated)

\* ===================================================================
\* manager_create: what it hands to its caller
\* ===================================================================

\* manager_create has ended: it returned, or the process was killed in it.
CreateEnded == crashed \/ pc["app"] \in {"idle", "done"}

\* Every record of the manager was filled from a device the server lists
\* and both default-device codes are set.
FullyBuilt ==
    /\ Len(mgr.outputs) = mgr.output_count
    /\ \A k \in DOMAIN mgr.outputs : SinkPosByCode(mgr.outputs[k].code) # 0
    /\ Len(mgr.inputs) = mgr.input_count
    /\ \A k \in DOMAIN mgr.inputs : mgr.inputs[k].code \in Range(srvIn.sources)
    /\ mgr.active_output_device # NoCode
    /\ mgr.active_input_device # NoCode

\* C15: manager_create ends by returning NULL or a fully built Manager.
C15_NullOrFullyBuilt ==
    CreateEnded =>
        \/ ret = "NULL"
        \/ ~crashed /\ pc["app"] = "idle" /\ FullyBuilt

\* C16: after a successful manager_create, output_count is the number of
\* sinks the server reports and outputs[k].code is the code of the k-th one.
C16_CountMatchesServer ==
    (~crashed /\ pc["app"] = "idle")
    => /\ mgr.output_count = Len(srvSinks)
       /\ \A k \in DOMAIN srvSinks :
             k \in DOMAIN mgr.outputs /\ mgr.outputs[k].code = srvSinks[k].code

\* ===================================================================
\* Volume / Mute Controller: per-channel mute and device-level mute
\* ===================================================================

\* What is recorded when an API call is entered: the server's volumes, mute
\* flags and source outputs, and the arguments of the call before it.
Snapshot ==
    [n |-> pre.n + 1, volume |-> srvVolume, mute |-> srvMute,
     captures |-> srvIn.captures,
     prev |-> IF call.fn = "none" THEN NoPrev
              ELSE [fn |-> call.fn, dev |-> call.dev,
                    channel_index |-> loc.channel_index,
                    mute_state |-> loc.mute_state, volume |-> pre.volume]]

\* pa_cvolume_max: the largest channel value of cv.
CVolumeMax(cv) == CHOOSE x \in Range(cv) : \A y \in Range(cv) : y <= x

\* manager_set_output_channel_mute_state_cb: the value written to the
\* addressed channel of the copied volume vector.
ChannelMuteValue(mute_state, cv) ==
    IF mute_state THEN PA_VOLUME_MUTED ELSE CVolumeMax(cv)

\* manager_set_output_mute_state(self, sink_index, channel_index, mute_state)
\* up to its first wait; limit is the number of API calls a run may make.
CallSetOutputMuteState(s, ch, m, limit) ==
    /\ ~crashed
    /\ pc["app"] = "idle"
    /\ pre.n < limit
    /\ pre' = Snapshot
    /\ call' = [NoCall EXCEPT !.fn = "manager_set_output_mute_state", !.dev = s]
    /\ loc' = [NoLoc EXCEPT !.channel_index = ch, !.mute_state = m]
    /\ ret' = "none"
    /\ ops' = Append(ops, NewOp("get_sink_info_by_index", "mgr",
                 "manager_set_output_channel_mute_state_cb", "mgr",
                 [NoArg EXCEPT !.index = s]))
    /\ srvQ' = [srvQ EXCEPT !["mgr"] = Append(@, Len(ops) + 1)]
    /\ it' = [it EXCEPT !["app"] = Frame("v14", Len(ops) + 1, "mgr", "som_write")]
    /\ pc' = [pc EXCEPT !["app"] = "it_enter"]
    /\ UNCHANGED <<srvSinks, srvDefaultSink, srvStreams, srvVolume, srvCards,
                   ctxState, lock, inbox, cur, wt, mgr, connRet, obsVars,
                   srvMute, srvIn, heap, bld, conv>>

\* new_volume holds the channels of the device; a store to
\* values[channel_index] with channel_index at or past the channel count
\* lands in an entry outside the device's channel range (stray).
\* manager_set_output_channel_mute_state_cb: the end of the list signals; a
\* record is copied into new_volume with the addressed channel replaced,
\* without a signal; an error (no record) does nothing.
CMS_CbSignals(isItem, eol) == IF ~isItem /\ eol > 0 THEN 1 ELSE 0

manager_set_output_channel_mute_state_cb(b) ==
    /\ CbAt(b, "manager_set_output_channel_mute_state_cb")
    /\ CbInvoked(b, CMS_CbSignals(CbIsItem(b), CbEol(b)), ops[CbOp(b)].m)
    /\ loc' = IF CbIsItem(b)
              THEN [loc EXCEPT
                      !.new_volume =
                          IF loc.channel_index + 1 \in DOMAIN CbItem(b).volume
                          THEN [CbItem(b).volume EXCEPT ![loc.channel_index + 1] =
                                  ChannelMuteValue(loc.mute_state, CbItem(b).volume)]
                          ELSE CbItem(b).volume,
                      !.stray = loc.channel_index + 1 \notin DOMAIN CbItem(b).volume,
                      !.new_set = TRUE]
              ELSE loc
    /\ UNCHANGED <<srvVars, ctxState, lock, inbox, it, mgr, connRet, call, ret,
                   everReady, crashed, auxVars>>

\* The volume write of manager_set_output_mute_state.  When no callback
\* filled new_volume it is an uninitialised local: the library may refuse it
\* (op == NULL, and iterate(NULL) returns at once) or send what it holds.
SOM_Write ==
    /\ ~crashed
    /\ pc["app"] = "som_write"
    /\ \E cv \in IF loc.new_set THEN {loc.new_volume}
                 ELSE {<<>>, CVolumeSet(PA_VOLUME_MUTED), CVolumeSet(PA_VOLUME_NORM)} :
          IF cv = <<>>
          THEN /\ it' = [it EXCEPT !["app"] = Frame("v14", NoOp, "mgr", "som_ret")]
               /\ UNCHANGED <<ops, srvQ>>
          ELSE /\ ops' = Append(ops, NewOp("set_sink_volume_by_index", "mgr",
                            "manager_set_output_channel_mute_state_cb2", "mgr",
                            [NoArg EXCEPT !.index = call.dev, !.cv = cv]))
               /\ srvQ' = [srvQ EXCEPT !["mgr"] = Append(@, Len(ops) + 1)]
               /\ it' = [it EXCEPT !["app"] =
                           Frame("v14", Len(ops) + 1, "mgr", "som_ret")]
    /\ pc' = [pc EXCEPT !["app"] = "it_enter"]
    /\ UNCHANGED <<srvSinks, srvDefaultSink, srvStreams, srvVolume, srvCards,
                   ctxState, lock, inbox, cur, wt, appVars, obsVars, auxVars>>

\* manager_set_output_channel_mute_state_cb2: prints on failure, signals.
manager_set_output_channel_mute_state_cb2(b) ==
    /\ CbAt(b, "manager_set_output_channel_mute_state_cb2")
    /\ CbInvoked(b, 1, ops[CbOp(b)].m)
    /\ UNCHANGED <<srvVars, ctxState, lock, inbox, it, appVars, everReady,
                   crashed, auxVars>>

\* manager_set_output_mute_state: return 0.
SOM_Return ==
    /\ ~crashed
    /\ pc["app"] = "som_ret"
    /\ ret' = "0"
    /\ pc' = [pc EXCEPT !["app"] = "idle"]
    /\ UNCHANGED <<srvVars, brVars, wt, it, mgr, connRet, call, loc, obsVars,
                   auxVars>>

\* A device-level mute that zeroes the channel volumes of the device.
TOM_Request_Mut(index, state) ==
    NewOp("set_sink_volume_by_index", "mgr", "manager_toggle_output_mute_cb",
          "mgr", [NoArg EXCEPT !.index = index,
                               !.cv = CVolumeSet(PA_VOLUME_MUTED)])

\* The request manager_toggle_output_mute submits: the device's mute flag,
\* addressed by the index the caller passed.
TOM_Request(index, state) ==
    NewOp("set_sink_mute_by_index", "mgr", "manager_toggle_output_mute_cb",
          "mgr", [NoArg EXCEPT !.index = index, !.mute = state])

\* manager_toggle_output_mute(manager, index, state) up to its wait.
CallToggleOutputMute(index, state, limit) ==
    /\ ~crashed
    /\ pc["app"] = "idle"
    /\ pre.n < limit
    /\ pre' = Snapshot
    /\ call' = [NoCall EXCEPT !.fn = "manager_toggle_output_mute", !.dev = index]
    /\ loc' = [NoLoc EXCEPT !.mute_state = state]
    /\ IF index >= mgr.output_count
       THEN /\ ret' = "-1"
            /\ UNCHANGED <<ops, srvQ, it, pc>>
       ELSE /\ ret' = "none"
            /\ ops' = Append(ops, TOM_Request(index, state))
            /\ srvQ' = [srvQ EXCEPT !["mgr"] = Append(@, Len(ops) + 1)]
            /\ it' = [it EXCEPT !["app"] =
                        Frame("v14", Len(ops) + 1, "mgr", "tom_ret")]
            /\ pc' = [pc EXCEPT !["app"] = "it_enter"]
    /\ UNCHANGED <<srvSinks, srvDefaultSink, srvStreams, srvVolume, srvCards,
                   ctxState, lock, inbox, cur, wt, mgr, connRet, obsVars,
                   srvMute, srvIn, heap, bld, conv>>

\* manager_toggle_output_mute_cb: prints on failure, signals.
manager_toggle_output_mute_cb(b) ==
    /\ CbAt(b, "manager_toggle_output_mute_cb")
    /\ CbInvoked(b, 1, ops[CbOp(b)].m)
    /\ UNCHANGED <<srvVars, ctxState, lock, inbox, it, appVars, everReady,
                   crashed, auxVars>>

\* manager_toggle_output_mute: return 0.
TOM_Return ==
    /\ ~crashed
    /\ pc["app"] = "tom_ret"
    /\ ret' = "0"
    /\ pc' = [pc EXCEPT !["app"] = "idle"]
    /\ UNCHANGED <<srvVars, brVars, wt, it, mgr, connRet, call, loc, obsVars,
                   auxVars>>

\* The channel volumes a sink may have when a run starts.
StartVolumes == {PA_VOLUME_NORM \div 2, PA_VOLUME_NORM}

\* A constructed manager over a server with at least one sink, the channels
\* of each sink starting at the volumes vols allows.
InitVolumes(vols) ==
    /\ srvSinks \in SinkSetups
    /\ srvSinks # <<>>
    /\ srvDefaultSink = srvSinks[1].code
    /\ srvStreams = <<>>
    /\ srvVolume \in [DOMAIN srvSinks -> vols]
    /\ srvCards = Len(srvSinks)
    /\ srvQ = [b \in Bridges |-> <<>>]
    /\ InitQuiet
    /\ ctxState = [b \in Bridges |-> "READY"]
    /\ pc = [t \in Threads |-> IF t = "app" THEN "idle" ELSE "poll"]
    /\ srvIn = OneSource
    /\ mgr = Catalog([NoManager EXCEPT !.pa_ready = 1])
    /\ heap = HeapOf(mgr, "v14")
    /\ connRet = [b \in Bridges |-> "ok"]
    /\ everReady = [b \in Bridges |-> TRUE]

\* The first channel at half volume, the others at full volume.
InitMute ==
    InitVolumes({[c \in 1..Channels |->
                    IF c = 1 THEN PA_VOLUME_NORM \div 2 ELSE PA_VOLUME_NORM]})

MuteAppStep ==
    \/ It_Enter("app") \/ It_Loop("app") \/ It_Woke("app") \/ It_Exit("app")
    \/ SOM_Write \/ SOM_Return \/ TOM_Return

MuteLoopStep(b) ==
    \/ DispatchBegin(b) \/ OpDone(b)
    \/ manager_set_output_channel_mute_state_cb(b)
    \/ manager_set_output_channel_mute_state_cb2(b)
    \/ manager_toggle_output_mute_cb(b)

\* One call per run: a per-channel mute or unmute, or a device-level mute.
MuteNext ==
    \/ MuteAppStep
    \/ \E s \in DeviceIds, ch \in 0..(Channels - 1), m \in BOOLEAN :
          CallSetOutputMuteState(s, ch, m, 1)
    \/ \E i \in DeviceIds, m \in BOOLEAN : CallToggleOutputMute(i, m, 1)
    \/ \E b \in Bridges : MuteLoopStep(b)
    \/ EnvStep

MuteSpec == InitMute /\ [][MuteNext]_vars

\* The operations a per-channel mute or unmute submits.
ChannelMuteOp(o) ==
    o.cb \in {"manager_set_output_channel_mute_state_cb",
              "manager_set_output_channel_mute_state_cb2"}

\* C20: the server applying a request of manager_toggle_output_mute changes
\* no channel volume of any device, the server applying a request of
\* manager_set_output_mute_state changes no mute flag, and no step changes
\* a mute flag and a channel volume together.
C20_MuteIndependentOfVolume ==
    [][/\ srvMute' # srvMute => srvVolume' = srvVolume
       /\ \A b \in Bridges :
            (srvQ[b] # <<>> /\ srvQ'[b] = Tail(srvQ[b])) =>
               LET o == ops[Head(srvQ[b])]
               IN /\ o.cb = "manager_toggle_output_mute_cb"
                       => srvVolume' = srvVolume
                  /\ ChannelMuteOp(o) => srvMute' = srvMute]_vars

\* A device-level mute was applied by the server and the call returned.
C20_Witness ==
    /\ call.fn = "manager_toggle_output_mute" /\ ret = "0"
    /\ \E k \in DOMAIN srvMute : srvMute[k] /\ ~pre.mute[k]
    /\ srvVolume = pre.volume

\* --- a per-channel mute followed by a per-channel unmute

MaxCalls == 2

\* The sink indices an application that mutes and unmutes a channel passes:
\* those of the sinks of the server.
SinkIndices == {srvSinks[k].index : k \in DOMAIN srvSinks}

\* Two calls at most, against a server that accepts every request, and
\* waits that end by a signal only.
RoundTripNext ==
    \/ It_Enter("app") \/ It_Loop("app") \/ It_Woke("app") \/ It_Exit("app")
    \/ SOM_Write \/ SOM_Return
    \/ \E s \in SinkIndices, ch \in 0..(Channels - 1), m \in BOOLEAN :
          CallSetOutputMuteState(s, ch, m, MaxCalls)
    \/ \E b \in Bridges :
          \/ DispatchBegin(b) \/ OpDone(b)
          \/ manager_set_output_channel_mute_state_cb(b)
          \/ manager_set_output_channel_mute_state_cb2(b)
    \/ \E b \in Bridges : SrvReply(b, TRUE)

RoundTripSpec ==
    InitVolumes([1..Channels -> StartVolumes]) /\ [][RoundTripNext]_vars

\* The running call unmutes the channel that the call before it muted.
UnmuteAfterMute ==
    /\ call.fn = "manager_set_output_mute_state"
    /\ ~loc.mute_state
    /\ pre.prev.fn = "manager_set_output_mute_state"
    /\ pre.prev.mute_state
    /\ pre.prev.dev = call.dev
    /\ pre.prev.channel_index = loc.channel_index

\* C17: when a channel was muted and then unmuted, every request having been
\* accepted by the server and every wait having lasted until its operation
\* was done, the channel's volume is the one it had before the mute.
C17_UnmuteRestoresVolume ==
    (/\ UnmuteAfterMute /\ ret = "0"
     /\ NoEarlyReturn
     /\ \A o \in DOMAIN ops : ops[o].answer = "ok")
    => LET k == SinkPosByIndex(call.dev)
       IN srvVolume[k][loc.channel_index + 1]
            = pre.prev.volume[k][loc.channel_index + 1]

\* ===================================================================
\* Percentage <-> native volume unit
\* ===================================================================

\* The percentage read back from a raw volume is 100.0 * raw / PA_VOLUME_NORM;
\* this is its numerator, the percentage in units of 1 / PA_VOLUME_NORM.
RawToPercent(raw) == 100 * raw

\* The percentages of the claim's domain.
PercentRange == 0..100

\* The write half: the raw volume the version's setter computes from p.
ConvertSet ==
    /\ conv.st = "start"
    /\ conv' = [conv EXCEPT
                  !.raw = IF conv.v = "v03" THEN SV_RawVolume(conv.p)
                          ELSE SMV_RawVolume(conv.p),
                  !.st = "set"]
    /\ UNCHANGED <<srvVars, brVars, thVars, appVars, obsVars,
                   srvMute, srvIn, heap, bld, pre>>

\* The read half: the percentage computed from the stored raw volume.
ConvertGet ==
    /\ conv.st = "set"
    /\ conv' = [conv EXCEPT !.got = RawToPercent(conv.raw), !.st = "got"]
    /\ UNCHANGED <<srvVars, brVars, thVars, appVars, obsVars,
                   srvMute, srvIn, heap, bld, pre>>

\* Any percentage of the domain, converted by either version.
InitConvert ==
    /\ InitServer
    /\ srvSinks = <<>>
    /\ srvCards = 0
    /\ lock = [b \in Bridges |-> "free"]
    /\ inbox = [b \in Bridges |-> <<>>]
    /\ cur = [b \in Bridges |-> NoCur]
    /\ ops = <<>>
    /\ wt = [t \in Threads |-> NoWait]
    /\ it = [t \in Threads |-> NoFrame]
    /\ call = NoCall
    /\ loc = NoLoc
    /\ ret = "none"
    /\ lateCb = FALSE
    /\ crashed = FALSE
    /\ srvMute = <<>>
    /\ bld = NoBuild
    /\ pre = NoPre
    /\ ctxState = [b \in Bridges |-> "READY"]
    /\ pc = [t \in Threads |-> IF t = "app" THEN "idle" ELSE "poll"]
    /\ srvIn = OneSource
    /\ mgr = [NoManager EXCEPT !.pa_ready = 1]
    /\ heap = HeapOf(mgr, "v14")
    /\ connRet = [b \in Bridges |-> "ok"]
    /\ everReady = [b \in Bridges |-> TRUE]
    /\ conv \in {[NoConv EXCEPT !.v = v, !.p = p, !.st = "start"] :
                   v \in {"v14", "v03"}, p \in PercentRange}

ConvertNext == ConvertSet \/ ConvertGet

ConvertSpec == InitConvert /\ [][ConvertNext]_vars

SDI_Request_Mut(code) ==
    NewOp("get_source_output_info_list", "mgr",
          "manager_switch_default_input_cb", "mgr", [NoArg EXCEPT !.code = code])

\* The request manager_switch_default_input submits.
SDI_Request(code) ==
    NewOp("set_default_source", "mgr", "manager_switch_default_input_cb",
          "mgr", [NoArg EXCEPT !.code = code])

\* manager_switch_default_input(self, i) up to its wait: an index outside
\* inputs returns false; otherwise the loop is locked, the request is
\* submitted and pa_threaded_mainloop_wait releases the lock.
CallSwitchDefaultInput(i) ==
    /\ ~crashed
    /\ pc["app"] = "idle"
    /\ call.fn = "none"
    /\ pre' = Snapshot
    /\ call' = [NoCall EXCEPT !.fn = "manager_switch_default_input", !.dev = i]
    /\ IF i >= mgr.input_count
       THEN /\ ret' = "false"
            /\ pc' = [pc EXCEPT !["app"] = "done"]
            /\ UNCHANGED <<ops, srvQ, it, wt>>
       ELSE /\ lock["mgr"] = "free"
            /\ ops' = Append(ops, SDI_Request(mgr.inputs[i + 1].code))
            /\ srvQ' = [srvQ EXCEPT !["mgr"] = Append(@, Len(ops) + 1)]
            /\ it' = [it EXCEPT !["app"] = Frame("v14", Len(ops) + 1, "mgr", "done")]
            /\ wt' = [wt EXCEPT !["app"] = Waiting("mgr")]
            /\ pc' = [pc EXCEPT !["app"] = "sdi_wait"]
            /\ ret' = ret
    /\ UNCHANGED <<srvSinks, srvDefaultSink, srvStreams, srvVolume, srvCards,
                   ctxState, lock, inbox, cur, mgr, connRet, loc, obsVars,
                   srvMute, srvIn, heap, bld, conv>>

\* manager_switch_default_input_cb: prints on failure, signals.
manager_switch_default_input_cb(b) ==
    /\ CbAt(b, "manager_switch_default_input_cb")
    /\ CbInvoked(b, 1, ops[CbOp(b)].m)
    /\ UNCHANGED <<srvVars, ctxState, lock, inbox, it, appVars, everReady,
                   crashed, auxVars>>

\* The wait returns with the lock held; unlock, return true.
SDI_Return ==
    /\ ~crashed
    /\ pc["app"] = "sdi_wait"
    /\ wt["app"].st = "woken"
    /\ lock["mgr"] = "free"
    /\ wt' = [wt EXCEPT !["app"] = NoWait]
    /\ ops' = [ops EXCEPT ![it["app"].op].ret = TRUE]
    /\ it' = [it EXCEPT !["app"] = NoFrame]
    /\ ret' = "true"
    /\ pc' = [pc EXCEPT !["app"] = "done"]
    /\ UNCHANGED <<srvVars, ctxState, lock, inbox, cur, mgr, connRet, call, loc,
                   obsVars, auxVars>>

\* A constructed manager over a server with one sink and some sources, any
\* of them the default, and source outputs attached to any of them.
InitInput ==
    /\ srvSinks = <<[index |-> 0, code |-> SinkCode(0)]>>
    /\ srvDefaultSink = SinkCode(0)
    /\ srvStreams = <<>>
    /\ srvVolume = [k \in DOMAIN srvSinks |-> CVolumeSet(PA_VOLUME_NORM)]
    /\ srvCards = Len(srvSinks)
    /\ srvQ = [b \in Bridges |-> <<>>]
    /\ InitQuiet
    /\ ctxState = [b \in Bridges |-> "READY"]
    /\ pc = [t \in Threads |-> IF t = "app" THEN "idle" ELSE "poll"]
    /\ \E n \in 1..MaxSinks :
         LET codes == {SourceCode(k - 1) : k \in 1..n}
         IN /\ srvIn \in [sources : {[k \in 1..n |-> SourceCode(k - 1)]},
                          default : codes,
                          captures : UNION {[1..c -> codes] : c \in 0..MaxStreams}]
    /\ mgr = Catalog([NoManager EXCEPT !.pa_ready = 1])
    /\ heap = HeapOf(mgr, "v14")
    /\ connRet = [b \in Bridges |-> "ok"]
    /\ everReady = [b \in Bridges |-> TRUE]

InputNext ==
    \/ \E i \in DeviceIds : CallSwitchDefaultInput(i)
    \/ SDI_Return
    \/ \E b \in Bridges :
          DispatchBegin(b) \/ OpDone(b) \/ manager_switch_default_input_cb(b)
    \/ EnvStep

InputSpec == InitInput /\ [][InputNext]_vars

\* C19: manager_switch_default_input submits nothing but the request to set
\* the default source (no enumeration of streams, no move of a stream), the
\* parent of every source output is the one it had when the call was
\* entered, and once the server has accepted the request the default source
\* is inputs[i].code.
C19_InputSwitchMovesNothing ==
    call.fn = "manager_switch_default_input" =>
        /\ \A o \in DOMAIN ops : ops[o].kind = "set_default_source"
        /\ srvIn.captures = pre.captures
        /\ \A o \in DOMAIN ops :
              ops[o].answer = "ok" => srvIn.default = mgr.inputs[call.dev + 1].code

\* The call returned true after the server made another source the default,
\* while a source output is attached to the former default.
C19_Witness ==
    /\ call.fn = "manager_switch_default_input" /\ ret = "true"
    /\ \E o \in DOMAIN ops : ops[o].answer = "ok" /\ ops[o].state = "DONE"
    /\ srvIn.default = mgr.inputs[call.dev + 1].code
    /\ srvIn.captures # <<>>
    /\ \A c \in DOMAIN srvIn.captures : srvIn.captures[c] # srvIn.default

\* C21: a completion callback runs on the loop thread of the mainloop whose
\* lock and condition the caller of the request waits on.
C21_CallbackOnCallersLoop ==
    \A b \in Bridges : pc[b] = "cb" => ops[CbOp(b)].m = b

\* ===================================================================
\* Catalog: building the output collection more than once
\* ===================================================================

RebuildNext ==
    \/ BuildAppStep
    \/ \E alloc \in BOOLEAN : CallGetAvailableOutputDevices(alloc, 2)
    \/ \E b \in Bridges : BuildLoopStep(b)
    \/ EnvStep

RebuildSpec == InitBuild /\ [][RebuildNext]_vars

\* A build has returned after at least one build before it, every listing
\* was answered by the server and no allocation failed in either build.
RebuiltCleanly ==
    /\ call.fn = "get_available_output_devices"
    /\ pre.n >= 2 /\ pc["app"] = "idle" /\ ret = "sinks"
    /\ ~bld.oom /\ ~bld.prev.oom
    /\ \A o \in DOMAIN ops : ops[o].answer = "ok"

HwSteps == <<"snd_pcm_open", "snd_pcm_hw_params_any",
             "snd_pcm_hw_params_set_access", "snd_pcm_hw_params_set_format",
             "snd_pcm_hw_params_set_channels", "snd_pcm_hw_params",
             "snd_pcm_hw_params_get_rate">>

\* Sample rates the server or the driver may report.
Rates == {44100, 48000}

\* get_output_sample_rate(alsa_id, sink_info): alsa_id and info tell whether
\* the pointers are non-null, fail is the position in HwSteps of the first
\* driver call that fails (0: none), hw is the rate of the driver and srv is
\* sink_info->sample_spec.rate.
get_output_sample_rate(alsa_id, info, fail, hw, srv) ==
    IF ~alsa_id /\ info THEN srv
    ELSE IF ~alsa_id \/ ~info THEN -1
    ELSE IF fail = 1 THEN srv
    ELSE IF fail \in 2..Len(HwSteps) THEN -1
    ELSE hw

\* get_input_sample_rate(alsa_id, source_info): the same steps on the
\* capture stream.
get_input_sample_rate(alsa_id, info, fail, hw, srv) ==
    IF ~alsa_id /\ info THEN srv
    ELSE IF ~alsa_id \/ ~info THEN -1
    ELSE IF fail = 1 THEN srv
    ELSE IF fail \in 2..Len(HwSteps) THEN -1
    ELSE hw

\* A manager at rest, with nothing in flight; conv is left to the
\* specification.
InitAtRest ==
    /\ InitServer
    /\ srvSinks = <<>>
    /\ srvCards = 0
    /\ lock = [b \in Bridges |-> "free"]
    /\ inbox = [b \in Bridges |-> <<>>]
    /\ cur = [b \in Bridges |-> NoCur]
    /\ ops = <<>>
    /\ wt = [t \in Threads |-> NoWait]
    /\ it = [t \in Threads |-> NoFrame]
    /\ call = NoCall
    /\ loc = NoLoc
    /\ ret = "none"
    /\ lateCb = FALSE
    /\ crashed = FALSE
    /\ srvMute = <<>>
    /\ bld = NoBuild
    /\ pre = NoPre
    /\ ctxState = [b \in Bridges |-> "READY"]
    /\ pc = [t \in Threads |-> IF t = "app" THEN "idle" ELSE "poll"]
    /\ srvIn = OneSource
    /\ mgr = [NoManager EXCEPT !.pa_ready = 1]
    /\ heap = HeapOf(mgr, "v14")
    /\ connRet = [b \in Bridges |-> "ok"]
    /\ everReady = [b \in Bridges |-> TRUE]

\* Any device, with or without a driver identifier, and any first failure.
InitRate ==
    /\ InitAtRest
    /\ conv \in [dir : {"output", "input"}, alsa_id : BOOLEAN, info : BOOLEAN,
                 fail : 0..Len(HwSteps), hw : Rates, srv : Rates,
                 got : {0}, st : {"start"}]

QueryOutputRate ==
    /\ conv.st = "start" /\ conv.dir = "output"
    /\ conv' = [conv EXCEPT
                  !.got = get_output_sample_rate(conv.alsa_id, conv.info,
                                                 conv.fail, conv.hw, conv.srv),
                  !.st = "got"]
    /\ UNCHANGED <<srvVars, brVars, thVars, appVars, obsVars,
                   srvMute, srvIn, heap, bld, pre>>

QueryInputRate ==
    /\ conv.st = "start" /\ conv.dir = "input"
    /\ conv' = [conv EXCEPT
                  !.got = get_input_sample_rate(conv.alsa_id, conv.info,
                                                conv.fail, conv.hw, conv.srv),
                  !.st = "got"]
    /\ UNCHANGED <<srvVars, brVars, thVars, appVars, obsVars,
                   srvMute, srvIn, heap, bld, pre>>

RateNext == QueryOutputRate \/ QueryInputRate

RateSpec == InitRate /\ [][RateNext]_vars

\* C23: when a call to the hardware driver fails while the sample rate of a
\* device is queried, the rate returned is the one the server reported.
C23_DriverFailureFallsBack ==
    (conv.st = "got" /\ conv.alsa_id /\ conv.info /\ conv.fail # 0)
    => conv.got = conv.srv

\* ===================================================================
\* run_and_wait on a null operation: get_active_device (v-0.03) and the
\* refused volume write of manager_set_output_mute_state (v-0.14)
\* ===================================================================

\* get_active_device up to its wait: the lock is taken, the server
\* information is requested (the handle is not kept) and the caller waits
\* once on the condition, which releases the lock.
CallGetActiveDevice(limit) ==
    /\ ~crashed
    /\ pc["app"] = "idle"
    /\ pre.n < limit
    /\ lock["mgr"] = "free"
    /\ pre' = Snapshot
    /\ call' = [NoCall EXCEPT !.fn = "get_active_device", !.v = "v03"]
    /\ loc' = [NoLoc EXCEPT !.polls = GAD_TIMEOUT]
    /\ ret' = "none"
    /\ ops' = Append(ops, NewOp("get_server_info", "mgr", "active_device_cb",
                                "mgr", NoArg))
    /\ srvQ' = [srvQ EXCEPT !["mgr"] = Append(@, Len(ops) + 1)]
    /\ wt' = [wt EXCEPT !["app"] = Waiting("mgr")]
    /\ pc' = [pc EXCEPT !["app"] = "gad_wait"]
    /\ UNCHANGED <<srvSinks, srvDefaultSink, srvStreams, srvVolume, srvCards,
                   ctxState, lock, inbox, cur, it, mgr, connRet, obsVars,
                   srvMute, srvIn, heap, bld, conv>>

\* active_device_cb: without server information it prints and returns; else
\* the device named as the server's default becomes the active one, and the
\* callback signals.
active_device_cb(b) ==
    /\ CbAt(b, "active_device_cb")
    /\ LET info == cur[b].ev.success = 1
           hit == {k \in 1..mgr.output_count :
                     mgr.outputs[k].code = srvDefaultSink}
       IN /\ CbInvoked(b, IF info THEN 1 ELSE 0, ops[CbOp(b)].m)
          /\ mgr' = IF info /\ hit # {}
                    THEN [mgr EXCEPT
                            !.active_device_index =
                                (CHOOSE k \in hit : \A j \in hit : k <= j) - 1,
                            !.active_output_device = srvDefaultSink]
                    ELSE mgr
    /\ UNCHANGED <<srvVars, ctxState, lock, inbox, it, connRet, call, loc, ret,
                   everReady, crashed, auxVars>>

\* The wait of get_active_device has returned and the lock is released.
GAD_Woke ==
    /\ ~crashed
    /\ pc["app"] = "gad_wait"
    /\ wt["app"].st = "woken"
    /\ lock["mgr"] = "free"
    /\ wt' = [wt EXCEPT !["app"] = NoWait]
    /\ pc' = [pc EXCEPT !["app"] = "gad_poll"]
    /\ UNCHANGED <<srvVars, brVars, it, mgr, connRet, call, loc, ret, obsVars,
                   auxVars>>

\* while (!manager->active_device_name && timeout-- > 0)
\*     manager->iterate(manager, NULL);
GAD_Poll ==
    /\ ~crashed
    /\ pc["app"] = "gad_poll"
    /\ IF mgr.active_output_device = NoCode /\ loc.polls > 0
       THEN /\ loc' = [loc EXCEPT !.polls = @ - 1]
            /\ it' = [it EXCEPT !["app"] = Frame("v03", NoOp, "mgr", "gad_poll")]
            /\ pc' = [pc EXCEPT !["app"] = "it_enter"]
            /\ UNCHANGED ret
       ELSE /\ ret' = "void"
            /\ pc' = [pc EXCEPT !["app"] = "idle"]
            /\ UNCHANGED <<loc, it>>
    /\ UNCHANGED <<srvVars, brVars, wt, mgr, connRet, call, obsVars, auxVars>>

\* A constructed manager as InitMute has it; active_device_name, which
\* new_manager (v-0.03) leaves uninitialised, is null or names the default.
InitNullOp ==
    /\ srvSinks \in SinkSetups
    /\ srvSinks # <<>>
    /\ srvDefaultSink = srvSinks[1].code
    /\ srvStreams = <<>>
    /\ srvVolume = [k \in DOMAIN srvSinks |-> CVolumeSet(PA_VOLUME_NORM \div 2)]
    /\ srvCards = Len(srvSinks)
    /\ srvQ = [b \in Bridges |-> <<>>]
    /\ InitQuiet
    /\ ctxState = [b \in Bridges |-> "READY"]
    /\ pc = [t \in Threads |-> IF t = "app" THEN "idle" ELSE "poll"]
    /\ srvIn = OneSource
    /\ \E name \in {NoCode, srvDefaultSink} :
          mgr = [Catalog([NoManager EXCEPT !.pa_ready = 1])
                   EXCEPT !.active_output_device = name]
    /\ heap = HeapOf(mgr, "v14")
    /\ connRet = [b \in Bridges |-> "ok"]
    /\ everReady = [b \in Bridges |-> TRUE]

NullOpNext ==
    \/ MuteAppStep
    \/ GAD_Woke \/ GAD_Poll
    \/ CallGetActiveDevice(1)
    \/ \E s \in DeviceIds, ch \in 0..(Channels - 1), m \in BOOLEAN :
          CallSetOutputMuteState(s, ch, m, 1)
    \/ \E i \in DeviceIds, m \in BOOLEAN : CallToggleOutputMute(i, m, 1)
    \/ \E b \in Bridges : MuteLoopStep(b) \/ active_device_cb(b)
    \/ EnvStep

NullOpSpec == InitNullOp /\ [][NullOpNext]_vars

\* C24: iterate() called with a null operation never reaches its wait: no
\* thread is in the loop, in the wait or at the end of an iterate() call
\* whose operation is null.
C24_NullOpNeverWaits ==
    \A t \in Threads :
        pc[t] \in {"it_loop", "it_wait", "it_exit"} => it[t].op # NoOp

\* get_active_device has polled with iterate(manager, NULL) a second time.
C24_Witness ==
    /\ call.fn = "get_active_device"
    /\ pc["app"] = "it_enter"
    /\ it["app"].op = NoOp
    /\ loc.polls = GAD_TIMEOUT - 2
    /\ wt["app"] = NoWait

\* ===================================================================
\* manager_set_master_volume: the completion signal and the wait
\* ===================================================================

\* C25: the completion signal of manager_set_master_volume is never lost:
\* the caller is not left waiting on the condition of its loop after the
\* completion callback of its request has signalled that condition.
C25_SignalNotLost ==
    (/\ call.fn = "manager_set_master_volume"
     /\ pc["app"] = "it_wait" /\ wt["app"].st = "waiting")
    => LET o == ops[it["app"].op]
       IN (o.m = it["app"].m /\ o.cb = "manager_set_master_volume_cb")
            => o.nsig = 0

\* ===================================================================
\* Loop lock held around accesses to the connection
\* ===================================================================

\* C26: a caller thread accesses the connection only while it holds the lock
\* of the event loop: whenever a request is submitted on a context, the
\* application thread holds the lock of that context's loop.
C26_SubmitUnderLock ==
    [][Len(ops') > Len(ops) => lock[ops'[Len(ops')].ctx] = "app"]_vars

\* ===================================================================
\* switch_device (v-0.06): the operation handle in and around iterate()
\* ===================================================================

\* switch_device up to its loop: the default sink is set by a request
\* without callback whose handle is released at once, then the sink inputs
\* are listed and the handle of that request is kept in op.
CallSwitchDevice(i) ==
    /\ ~crashed
    /\ pc["app"] = "idle"
    /\ call.fn = "none"
    /\ call' = [NoCall EXCEPT !.fn = "switch_device", !.dev = i, !.v = "v06"]
    /\ IF i >= mgr.output_count
       THEN /\ ret' = "false"
            /\ pc' = [pc EXCEPT !["app"] = "done"]
            /\ UNCHANGED <<ops, srvQ, loc>>
       ELSE /\ ops' = ops \o
                 << [NewOp("set_default_sink", "mgr", "NULL", "mgr",
                           [NoArg EXCEPT !.code = mgr.outputs[i + 1].code])
                       EXCEPT !.ret = TRUE],
                    NewOp("get_sink_input_info_list", "mgr",
                          "switch_device_cb", "mgr", NoArg) >>
            /\ srvQ' = [srvQ EXCEPT !["mgr"] = @ \o <<Len(ops) + 1, Len(ops) + 2>>]
            /\ loc' = [NoLoc EXCEPT !.op = Len(ops) + 2]
            /\ pc' = [pc EXCEPT !["app"] = "sd_loop"]
            /\ UNCHANGED ret
    /\ UNCHANGED <<srvSinks, srvDefaultSink, srvStreams, srvVolume, srvCards,
                   ctxState, lock, inbox, cur, wt, it, mgr, connRet, obsVars,
                   auxVars>>

\* switch_device_cb: a record requests the move of that sink input to the
\* chosen device (no callback, handle released at once); the end of the
\* list, or an error, signals.
switch_device_cb(b) ==
    /\ CbAt(b, "switch_device_cb")
    /\ LET o == CbOp(b)
           mv == NewOp("move_sink_input_by_index", ops[o].ctx, "NULL", ops[o].m,
                       [NoArg EXCEPT !.stream = CbItem(b).index,
                                     !.index = mgr.outputs[call.dev + 1].index])
       IN IF CbIsItem(b)
          THEN /\ ops' = Append([ops EXCEPT ![o].ncb = @ + 1],
                                [mv EXCEPT !.ret = TRUE])
               /\ srvQ' = [srvQ EXCEPT ![ops[o].ctx] = Append(@, Len(ops) + 1)]
               /\ pc' = pc
               /\ wt' = wt
          ELSE /\ ops' = [ops EXCEPT ![o].ncb = @ + 1, ![o].nsig = @ + 1]
               /\ srvQ' = srvQ
               /\ pc' = [pc EXCEPT ![b] = "opdone"]
               /\ wt' = Signal(ops[o].m, wt)
    /\ cur' = [cur EXCEPT ![b].k = @ + 1]
    /\ lateCb' = (lateCb \/ ops[CbOp(b)].ret)
    /\ UNCHANGED <<srvSinks, srvDefaultSink, srvStreams, srvVolume, srvCards,
                   ctxState, lock, inbox, it, appVars, everReady, crashed,
                   auxVars>>

\* while (pa_operation_get_state(op) == PA_OPERATION_RUNNING) iterate(self, op);
\* A handle that iterate() has released and that the library has completed
\* is freed memory: what the read returns is then undefined.
SD_Loop ==
    /\ ~crashed
    /\ pc["app"] = "sd_loop"
    /\ \E running \in IF ops[loc.op].ret /\ ops[loc.op].state = "DONE"
                      THEN BOOLEAN
                      ELSE {ops[loc.op].state = "RUNNING"} :
          IF running
          THEN /\ it' = [it EXCEPT !["app"] = Frame("v14", loc.op, "mgr", "sd_loop")]
               /\ pc' = [pc EXCEPT !["app"] = "it_enter"]
          ELSE /\ pc' = [pc EXCEPT !["app"] = "sd_unref"]
               /\ UNCHANGED it
    /\ UNCHANGED <<srvVars, brVars, wt, mgr, connRet, call, loc, ret, obsVars,
                   auxVars>>

\* pa_operation_unref(op); return true;
SD_Unref ==
    /\ ~crashed
    /\ pc["app"] = "sd_unref"
    /\ ops' = [ops EXCEPT ![loc.op].ret = TRUE]
    /\ ret' = "true"
    /\ pc' = [pc EXCEPT !["app"] = "done"]
    /\ UNCHANGED <<srvVars, ctxState, lock, inbox, cur, wt, it, mgr, connRet,
                   call, loc, everReady, lateCb, crashed, auxVars>>

SwitchDeviceNext ==
    \/ It_Enter("app") \/ It_Loop("app") \/ It_Woke("app") \/ It_Exit("app")
    \/ SD_Loop \/ SD_Unref
    \/ \E i \in DeviceIds : CallSwitchDevice(i)
    \/ \E b \in Bridges : DispatchBegin(b) \/ OpDone(b) \/ switch_device_cb(b)
    \/ EnvStep

SwitchDeviceSpec == Init /\ [][SwitchDeviceNext]_vars

\* C27: the handle given to iterate() is released once, after the wait, and
\* is neither read nor released again: switch_device is never about to read
\* the state of, or to release, a handle that has already been released.
C27_HandleReleasedOnce ==
    (call.fn = "switch_device" /\ pc["app"] \in {"sd_loop", "sd_unref"})
    => ~ops[loc.op].ret

\* ===================================================================
\* manager_switch_default_output: order of the checks and the reads
\* ===================================================================

\* C28: manager_switch_default_output reads outputs[device_index] only after
\* device_index < output_count has been checked: a call whose index fails
\* that check has read nothing out of bounds, so it cannot have faulted
\* before sending anything.
C28_CheckedBeforeRead ==
    ~(/\ call.fn = "manager_switch_default_output"
      /\ call.dev >= mgr.output_count
      /\ ops = <<>>
      /\ crashed)

\* ===================================================================
\* set_volume (v-0.03): the cached volume after the re-fetch
\* ===================================================================

\* set_volume has returned true, the server applied the new volume and
\* answered the re-fetch, and both callbacks ran before the return.
SetVolumeSucceeded ==
    /\ call.fn = "set_volume" /\ ret = "true"
    /\ ~loc.timeout
    /\ Len(ops) = 2
    /\ \A o \in DOMAIN ops : ops[o].answer = "ok" /\ ops[o].state = "DONE"

\* C29: after set_volume(d, p) has succeeded the cached volume of device d
\* is the volume the server reported for d in the re-fetch, and the cached
\* volume of every other device is what it was.
C29_CacheFollowsRefetch ==
    SetVolumeSucceeded =>
        /\ mgr.volume[call.dev + 1] = srvVolume[call.dev + 1]
        /\ \A k \in DOMAIN mgr.volume :
              k # call.dev + 1 => mgr.volume[k] = CVolumeSet(PA_VOLUME_NORM \div 2)

\* C30: for every accepted percentage the raw volume written to the server
\* stays at least one unit below PA_VOLUME_NORM; 100 percent does not write
\* PA_VOLUME_NORM itself.
C30_BelowFullScale ==
    conv.st \in {"set", "got"} => conv.raw <= PA_VOLUME_NORM - 1

\* ===================================================================
\* Per-channel mute: the vector written back
\* ===================================================================

\* The vector a per-channel mute or unmute of channel ch derives from the
\* fetched vector cv.
MutedVector(cv, ch, mute_state) ==
    [cv EXCEPT ![ch + 1] = ChannelMuteValue(mute_state, cv)]

\* C31: the volume vector a per-channel mute or unmute writes back is the
\* vector the server reported in the read before it, with the entry of the
\* target channel replaced by PA_VOLUME_MUTED (mute) or by the largest
\* channel value of the fetched vector (unmute).
C31_WriteBackFrame ==
    \A o \in DOMAIN ops :
        (/\ call.fn = "manager_set_output_mute_state"
         /\ ops[o].cb = "manager_set_output_channel_mute_state_cb2"
         /\ \E r \in DOMAIN ops :
               /\ ops[r].cb = "manager_set_output_channel_mute_state_cb"
               /\ ops[r].answer = "ok")
        => ops[o].arg.cv =
             MutedVector(pre.volume[SinkPosByIndex(call.dev)],
                         loc.channel_index, loc.mute_state)

\* ===================================================================
\* Per-channel mute: a channel index outside the device's channels
\* ===================================================================

\* The calls of MuteSpec, and per-channel calls whose channel_index is the
\* channel count of the device.
ChannelRangeNext ==
    \/ MuteNext
    \/ \E s \in DeviceIds, m \in BOOLEAN :
          CallSetOutputMuteState(s, Channels, m, 1)

ChannelRangeSpec == InitMute /\ [][ChannelRangeNext]_vars

\* C32: with a channel_index at or past the channel count of the device,
\* manager_set_output_mute_state returns an error, submits no volume write,
\* and stores to no entry outside the device's channel range.
C32_ChannelIndexChecked ==
    (call.fn = "manager_set_output_mute_state" /\ loc.channel_index >= Channels)
    => /\ ret \in {"none", "-1"}
       /\ \A o \in DOMAIN ops :
             ops[o].cb # "manager_set_output_channel_mute_state_cb2"
       /\ ~loc.stray

\* ===================================================================
\* Device-level mute: which device is addressed
\* ===================================================================

\* C33: manager_toggle_output_mute(m, i, s) with i < output_count changes the
\* mute flag of the server's sink whose index is outputs[i].index and of no
\* other sink.
C33_MuteAddressesCatalogRecord ==
    (call.fn = "manager_toggle_output_mute" /\ call.dev < mgr.output_count)
    => \A k \in DOMAIN srvMute :
          srvMute[k] # pre.mute[k]
            => srvSinks[k].index = mgr.outputs[call.dev + 1].index

\* ===================================================================
\* manager_create: what is left behind when manager_initialize fails
\* ===================================================================

\* C34: when manager_initialize fails, also by the connection reaching FAILED
\* or TERMINATED, the loop thread of the manager has been stopped by the
\* time manager_create returns NULL, so nothing runs that still refers to
\* the freed manager.
C34_FailedInitStopsLoop ==
    (ret = "NULL" /\ connRet["mgr"] = "fail") => pc["mgr"] = "off"

\* ===================================================================
\* get_available_output_devices: stores into the array
\* ===================================================================

\* C36: every store of get_available_output_devices_cb to sinks[k], a record
\* or the NULL that ends the array, has k inside the allocated array,
\* whatever numbers of sinks and of cards the server reports.
C36_StoreInsideArray ==
    \A b \in Bridges :
        (/\ CbAt(b, "get_available_output_devices_cb")
         /\ (CbIsItem(b) \/ CbEol(b) > 0))
        => InArray(bld.count + 1)

\* ===================================================================
\* get_output_device_index_by_code: the value returned
\* ===================================================================

\* UINT32_MAX, (uint32_t) -1: the value get_output_device_index_by_code
\* documents for "not found or error".  Server indexes are small naturals,
\* so the all-ones value is written as -1.
UINT32_MAX == 0 - 1

\* The lookup of get_output_device_index_by_code, whose iterate() returned.
IndexLookup(o) ==
    /\ ops[o].cb = "get_output_device_index_by_code_cb"
    /\ ops[o].ret

\* C39: when get_output_device_index_by_code has returned, its result is the
\* server's index of the device with the given code if the server found it,
\* and UINT32_MAX if no device has that code or the request failed.
C39_IndexOrMax ==
    \A o \in DOMAIN ops :
        (pc["app"] = "sdo_list" /\ IndexLookup(o))
        => loc.index = IF ops[o].answer = "ok"
                       THEN ResolvedIndex(ops[o].arg.code)
                       ELSE UINT32_MAX

\* ===================================================================
\* get_available_input_devices (system_query.c): the array of sources
\* ===================================================================

\* The most sources the server lists.
MaxSources == 9

\* new_alloc = allocated + 8: the slots one growth of the array adds.
SOURCES_GROWTH == 8

\* shared_data_sources = {NULL, 0, 0}.  sources is the allocated array (empty
\* for a NULL pointer), strings the slots whose record holds copies of name
\* and description that were not released, oom whether a growth of the
\* array failed, stray whether a store went outside the array.
NoSources ==
    [sources |-> <<>>, count |-> 0, allocated |-> 0, strings |-> {},
     oom |-> FALSE, stray |-> FALSE]

\* The server's sources when it lists n of them.
SourcesOf(n) ==
    [sources |-> [k \in 1..n |-> SourceCode(k - 1)],
     default |-> IF n = 0 THEN NoCode ELSE SourceCode(0),
     captures |-> <<>>]

\* get_available_input_devices: shared_data_sources is reset, the source
\* list is requested and iterate (v12) waits for it.
CallGetAvailableInputDevices ==
    /\ ~crashed
    /\ pc["app"] = "idle"
    /\ pre.n < 1
    /\ pre' = [pre EXCEPT !.n = @ + 1]
    /\ call' = [call EXCEPT !.fn = "get_available_input_devices"]
    /\ bld' = NoSources
    /\ ops' = Append(ops, NewOp("get_source_info_list", "sq",
                        "get_available_input_devices_cb", "sq", NoArg))
    /\ srvQ' = [srvQ EXCEPT !["sq"] = Append(@, Len(ops) + 1)]
    /\ it' = [it EXCEPT !["app"] = Frame("v12", Len(ops) + 1, "sq", "gaid_return")]
    /\ pc' = [pc EXCEPT !["app"] = "it_enter"]
    /\ ret' = "none"
    /\ UNCHANGED <<srvSinks, srvDefaultSink, srvStreams, srvVolume, srvCards,
                   ctxState, lock, inbox, cur, wt, mgr, connRet, loc, obsVars,
                   srvMute, srvIn, heap, conv>>

\* The array after realloc to allocated + 8 slots.
GAID_Grown(sources) ==
    sources \o [k \in 1..SOURCES_GROWTH |-> <<"uninit">>]

\* get_available_input_devices_cb.  A negative eol signals.  The end of the
\* list stores NULL at sources[count], with no test of count against
\* allocated, and signals.  A record first grows the array when count >=
\* allocated (grow = FALSE: realloc fails, the callback signals and returns,
\* the array and its records stay as they are); then a pa_source_info is
\* allocated at sources[count] (alloc = FALSE: NULL stays in the slot, the
\* callback signals and returns), the record and its two strings are copied
\* and count grows.  A store outside the array is undefined: the process is
\* killed or the store is lost.
get_available_input_devices_cb(b, grow, alloc) ==
    /\ CbAt(b, "get_available_input_devices_cb")
    /\ LET slot == bld.count + 1
           needs == bld.count >= bld.allocated
           arr == IF needs THEN GAID_Grown(bld.sources) ELSE bld.sources
           m == ops[CbOp(b)].m
       IN IF CbEol(b) < 0
          THEN /\ CbInvoked(b, 1, m)
               /\ UNCHANGED <<bld, crashed>>
          ELSE IF ~CbIsItem(b)
          THEN IF slot \in DOMAIN bld.sources
               THEN /\ bld' = [bld EXCEPT !.sources[slot] = <<"NULL">>]
                    /\ CbInvoked(b, 1, m)
                    /\ UNCHANGED crashed
               ELSE \/ /\ bld' = [bld EXCEPT !.stray = TRUE]
                       /\ CbInvoked(b, 1, m)
                       /\ UNCHANGED crashed
                    \/ /\ bld' = [bld EXCEPT !.stray = TRUE]
                       /\ crashed' = TRUE
                       /\ UNCHANGED <<ops, wt, pc, cur, lateCb>>
          ELSE IF needs /\ ~grow
          THEN /\ bld' = [bld EXCEPT !.oom = TRUE]
               /\ CbInvoked(b, 1, m)
               /\ UNCHANGED crashed
          ELSE IF ~alloc
          THEN /\ bld' = [bld EXCEPT !.sources = [arr EXCEPT ![slot] = <<"NULL">>],
                                     !.allocated = Len(arr)]
               /\ CbInvoked(b, 1, m)
               /\ UNCHANGED crashed
          ELSE /\ bld' = [bld EXCEPT !.sources = [arr EXCEPT ![slot] = CbItem(b).code],
                                     !.allocated = Len(arr),
                                     !.strings = @ \cup {slot},
                                     !.count = @ + 1]
               /\ CbInvoked(b, 0, m)
               /\ UNCHANGED crashed
    /\ UNCHANGED <<srvVars, ctxState, lock, inbox, it, appVars, everReady,
                   srvMute, srvIn, heap, conv, pre>>

\* After iterate(): sources = realloc(sources, count + 1 slots); on success
\* the NULL is stored at sources[count]; on failure (fin = FALSE) the old
\* block, its records and their strings stay allocated and NULL is
\* returned.  return shared_data_sources.sources.
GAID_Return(fin) ==
    /\ ~crashed
    /\ pc["app"] = "gaid_return"
    /\ IF fin
       THEN /\ bld' = [bld EXCEPT !.sources =
                          SubSeq(@, 1, bld.count) \o <<<<"NULL">>>>]
            /\ ret' = "sources"
       ELSE /\ bld' = [bld EXCEPT !.sources = <<>>,
                                  !.oom = @ \/ bld.count + 1 > Len(bld.sources)]
            /\ ret' = "NULL"
    /\ pc' = [pc EXCEPT !["app"] = "idle"]
    /\ UNCHANGED <<srvVars, brVars, wt, it, mgr, connRet, call, loc, obsVars,
                   srvMute, srvIn, heap, conv, pre>>

\* system_query is up, nothing is in flight and the server lists 0 to
\* MaxSources sources.
InitSources ==
    /\ srvSinks = <<>>
    /\ srvDefaultSink = NoCode
    /\ srvStreams = <<>>
    /\ srvVolume = <<>>
    /\ srvCards = 0
    /\ srvQ = [b \in Bridges |-> <<>>]
    /\ lock = [b \in Bridges |-> "free"]
    /\ inbox = [b \in Bridges |-> <<>>]
    /\ cur = [b \in Bridges |-> NoCur]
    /\ ops = <<>>
    /\ wt = [t \in Threads |-> NoWait]
    /\ it = [t \in Threads |-> NoFrame]
    /\ call = NoCall
    /\ loc = NoLoc
    /\ ret = "none"
    /\ lateCb = FALSE
    /\ crashed = FALSE
    /\ srvMute = <<>>
    /\ bld = NoSources
    /\ conv = NoConv
    /\ pre = NoPre
    /\ ctxState = [b \in Bridges |-> "READY"]
    /\ pc = [t \in Threads |-> IF t = "app" THEN "idle" ELSE "poll"]
    /\ \E n \in 0..MaxSources : srvIn = SourcesOf(n)
    /\ mgr = [NoManager EXCEPT !.pa_ready = 1]
    /\ heap = HeapOf(mgr, "v14")
    /\ connRet = [b \in Bridges |-> "ok"]
    /\ everReady = [b \in Bridges |-> TRUE]

SourcesNext ==
    \/ It_Enter("app") \/ It_Loop("app") \/ It_Woke("app") \/ It_Exit("app")
    \/ CallGetAvailableInputDevices
    \/ \E fin \in BOOLEAN : GAID_Return(fin)
    \/ \E b \in Bridges : DispatchBegin(b) \/ OpDone(b)
    \/ \E b \in Bridges, grow, alloc \in BOOLEAN :
           get_available_input_devices_cb(b, grow, alloc)
    \/ \E b \in Bridges, ok \in BOOLEAN : SrvReply(b, ok)
    \/ \E t \in Threads : SpuriousWakeup(t)

SourcesSpec == InitSources /\ [][SourcesNext]_vars

\* C35: when a growth of the array failed during a listing, the build
\* returns NULL and no string copied for an earlier record is left
\* allocated.
C35_GrowthFailureCleansUp ==
    (/\ call.fn = "get_available_input_devices"
     /\ ret # "none"
     /\ bld.oom)
    => (ret = "NULL" /\ bld.strings = {})

\* C37: no store of get_available_input_devices_cb to sources[k], a record
\* or the NULL at the end of the list, falls outside the allocated array,
\* for every number of sources, 0 and multiples of the growth step included.
C37_SourceStoreInsideArray ==
    call.fn = "get_available_input_devices" => ~bld.stray

\* ===================================================================
\* get_alsa_output_id (system_query.c) and its caller in manager_create
\* ===================================================================

\* shared_data_2.alsa_id and the strings made for it.  A string is named by
\* the number of the call that allocated it, 0 is NULL.  alsa_id is the
\* file-scope slot, got the value the last call returned, live the strings
\* allocated and not freed, twice whether a string was freed a second time.
NoAlsa == [alsa_id |-> 0, got |-> 0, live |-> {}, twice |-> FALSE]

\* get_alsa_output_id(sink_name): the name is copied, the sink is looked up
\* by name and iterate (v12) waits.  shared_data_2.alsa_id is not written
\* before the lookup.
CallGetAlsaOutputId(c) ==
    /\ ~crashed
    /\ pc["app"] = "idle"
    /\ pre.n < 2
    /\ pre' = [pre EXCEPT !.n = @ + 1]
    /\ call' = [call EXCEPT !.fn = "get_alsa_output_id"]
    /\ ops' = Append(ops, NewOp("get_sink_info_by_name", "sq",
                        "get_alsa_output_id_cb", "sq",
                        [NoArg EXCEPT !.code = c]))
    /\ srvQ' = [srvQ EXCEPT !["sq"] = Append(@, Len(ops) + 1)]
    /\ it' = [it EXCEPT !["app"] = Frame("v12", Len(ops) + 1, "sq", "gao_return")]
    /\ pc' = [pc EXCEPT !["app"] = "it_enter"]
    /\ ret' = "none"
    /\ UNCHANGED <<srvSinks, srvDefaultSink, srvStreams, srvVolume, srvCards,
                   ctxState, lock, inbox, cur, wt, mgr, connRet, loc, obsVars,
                   srvMute, srvIn, heap, bld, conv>>

\* get_alsa_output_id_cb: any non-zero eol signals and returns; a record of
\* another name returns; otherwise alsa_id becomes a new "hw:card,device"
\* string when the sink has both ALSA properties (alsa) and strdup succeeds
\* (alloc), NULL if not, and the callback signals.
get_alsa_output_id_cb(b, alsa, alloc) ==
    /\ CbAt(b, "get_alsa_output_id_cb")
    /\ LET o == ops[CbOp(b)] IN
       IF ~CbIsItem(b)
       THEN /\ CbInvoked(b, 1, o.m)
            /\ UNCHANGED bld
       ELSE IF CbItem(b).code # o.arg.code
       THEN /\ CbInvoked(b, 0, o.m)
            /\ UNCHANGED bld
       ELSE /\ bld' = IF alsa /\ alloc
                      THEN [bld EXCEPT !.alsa_id = pre.n, !.live = @ \cup {pre.n}]
                      ELSE [bld EXCEPT !.alsa_id = 0]
            /\ CbInvoked(b, 1, o.m)
    /\ UNCHANGED <<srvVars, ctxState, lock, inbox, it, appVars, everReady,
                   crashed, srvMute, srvIn, heap, conv, pre>>

\* return shared_data_2.alsa_id;
GAO_Return ==
    /\ ~crashed
    /\ pc["app"] = "gao_return"
    /\ bld' = [bld EXCEPT !.got = bld.alsa_id]
    /\ ret' = IF bld.alsa_id = 0 THEN "NULL" ELSE "alsa_id"
    /\ pc' = [pc EXCEPT !["app"] = "gao_free"]
    /\ UNCHANGED <<srvVars, brVars, wt, it, mgr, connRet, call, loc, obsVars,
                   srvMute, srvIn, heap, conv, pre>>

\* manager_create: free(alsa_id) on the value returned.  Freeing a string
\* that was freed before is undefined: the process is killed or goes on.
MC_FreeAlsaId ==
    /\ ~crashed
    /\ pc["app"] = "gao_free"
    /\ bld' = [bld EXCEPT !.live = @ \ {bld.got},
                          !.twice = @ \/ (bld.got # 0 /\ bld.got \notin bld.live)]
    /\ \/ /\ pc' = [pc EXCEPT !["app"] = "idle"]
          /\ UNCHANGED crashed
       \/ /\ bld.got # 0 /\ bld.got \notin bld.live
          /\ crashed' = TRUE
          /\ UNCHANGED pc
    /\ UNCHANGED <<srvVars, brVars, wt, it, appVars, everReady, lateCb,
                   srvMute, srvIn, heap, conv, pre>>

\* system_query is up and the slot holds NULL, as initialised.
InitAlsa ==
    /\ InitServer
    /\ lock = [b \in Bridges |-> "free"]
    /\ inbox = [b \in Bridges |-> <<>>]
    /\ cur = [b \in Bridges |-> NoCur]
    /\ ops = <<>>
    /\ wt = [t \in Threads |-> NoWait]
    /\ it = [t \in Threads |-> NoFrame]
    /\ call = NoCall
    /\ loc = NoLoc
    /\ ret = "none"
    /\ lateCb = FALSE
    /\ crashed = FALSE
    /\ srvMute = [k \in DOMAIN srvSinks |-> FALSE]
    /\ bld = NoAlsa
    /\ conv = NoConv
    /\ pre = NoPre
    /\ ctxState = [b \in Bridges |-> "READY"]
    /\ pc = [t \in Threads |-> IF t = "app" THEN "idle" ELSE "poll"]
    /\ srvIn = OneSource
    /\ mgr = [NoManager EXCEPT !.pa_ready = 1]
    /\ heap = HeapOf(mgr, "v14")
    /\ connRet = [b \in Bridges |-> "ok"]
    /\ everReady = [b \in Bridges |-> TRUE]

AlsaNext ==
    \/ It_Enter("app") \/ It_Loop("app") \/ It_Woke("app") \/ It_Exit("app")
    \/ \E k \in 0..(MaxSinks - 1) : CallGetAlsaOutputId(SinkCode(k))
    \/ GAO_Return
    \/ MC_FreeAlsaId
    \/ \E b \in Bridges : DispatchBegin(b) \/ OpDone(b)
    \/ \E b \in Bridges, alsa, alloc \in BOOLEAN :
           get_alsa_output_id_cb(b, alsa, alloc)
    \/ \E b \in Bridges, ok \in BOOLEAN : SrvReply(b, ok)
    \/ \E t \in Threads : SpuriousWakeup(t)

AlsaSpec == InitAlsa /\ [][AlsaNext]_vars

\* C38: the value get_alsa_output_id returns is NULL or a string allocated
\* during that very call, never one an earlier query left in the slot, and
\* no string is freed twice by the caller.
C38_OwnReplyOnly ==
    (call.fn = "get_alsa_output_id" /\ ret # "none")
    => /\ bld.got \in {0, pre.n}
       /\ ~bld.twice

====
